---- MODULE Spec2Model ----
(***************************************************************************)
(* A model of the Laconic request-dispatch core: URL rules, the Router,    *)
(* the hook and exception-handler registries of the Laconic application    *)
(* object, and the per-request Context state machine.                      *)
(*                                                                         *)
(* Python strings are modelled as sequences of one-character strings, so   *)
(* that the URL rule tokenizer and the compiled regular expressions work   *)
(* on characters as the code does.  Python's None is modelled by 0 where   *)
(* the code only tests it for truth (status codes) and by the explicit     *)
(* record PyNone for object fields.                                        *)
(***************************************************************************)
EXTENDS Integers, Sequences, FiniteSets, TLC

(***************************************************************************)
(* Bounds of the model.                                                    *)
(***************************************************************************)
MaxRoutes == 3
MaxHooks == 3
MaxExcHandlers == 3
MaxAppHooks == 1
MaxAppHandlers == 1

Range(s) == {s[i] : i \in DOMAIN s}

(***************************************************************************)
(* routing.py: URLRule                                                     *)
(***************************************************************************)
Digits == {"0", "1", "2", "3", "4", "5", "6", "7", "8", "9"}
Letters == {"a", "b", "c", "d", "e", "f", "g", "h", "i", "j", "k", "l", "m",
            "n", "o", "p", "q", "r", "s", "t", "u", "v", "w", "x", "y", "z", "_"}

\* URLRule._split_re = re.compile(r'(<|>|:)'), used through .split(url_rule):
\* the text between delimiters (possibly empty) with the delimiters kept.
RECURSIVE SplitFrom(_, _, _)
SplitFrom(s, i, cur) ==
    IF i > Len(s) THEN <<cur>>
    ELSE IF s[i] \in {"<", ">", ":"}
         THEN <<cur, <<s[i]>>>> \o SplitFrom(s, i + 1, <<>>)
         ELSE SplitFrom(s, i + 1, Append(cur, s[i]))

split_re(url_rule) == SplitFrom(url_rule, 1, <<>>)

\* URLRule.TYPE_REGEXES: the keys; a missing key is a KeyError.
TYPE_REGEXES(tok) ==
    IF tok = <<"i", "n", "t">> THEN "int"
    ELSE IF tok = <<"s", "t", "r", "i", "n", "g">> THEN "string"
    ELSE IF tok = <<"f", "l", "o", "a", "t">> THEN "float"
    ELSE IF tok = <<"p", "a", "t", "h">> THEN "path"
    ELSE "KeyError"

IsDigits(w) == \A i \in DOMAIN w : w[i] \in Digits
Unsigned(w) == IF w # <<>> /\ w[1] = "-" THEN Tail(w) ELSE w

\* The language of each regular expression of TYPE_REGEXES, and of an
\* escaped literal:  int \-?\d+   string [^/]+   float \-?\d+(\.\d*)?
\* path [^/].?  (one character that is not a slash, then at most one more
\* character that is not a newline).
PieceMatches(piece, w) ==
    CASE piece.kind = "lit" -> w = piece.text
      [] piece.kind = "int" -> Unsigned(w) # <<>> /\ IsDigits(Unsigned(w))
      [] piece.kind = "string" -> w # <<>> /\ \A i \in DOMAIN w : w[i] # "/"
      [] piece.kind = "float" ->
            LET u == Unsigned(w) IN
            \E k \in 1..Len(u) :
                /\ IsDigits(SubSeq(u, 1, k))
                /\ \/ k = Len(u)
                   \/ u[k + 1] = "." /\ IsDigits(SubSeq(u, k + 2, Len(u)))
      [] piece.kind = "path" ->
            /\ Len(w) \in {1, 2}
            /\ w[1] # "/"
            /\ Len(w) = 2 => w[2] # "\n"

\* Python identifiers: what re.compile accepts as a group name.
IsIdentifier(name) ==
    /\ name # <<>>
    /\ name[1] \in Letters
    /\ \A i \in DOMAIN name : name[i] \in Letters \cup Digits

NoDuplicates(names) ==
    \A i, j \in DOMAIN names : names[i] = names[j] => i = j

\* URLRule.__init__: the token loop, then re.compile of the joined pieces.
\* Every failure (the ValueErrors, the KeyError of an unknown type, the
\* re.error of a bad or repeated group name) leaves as
\* APIEndpointDefinitionError.
RECURSIVE CompileFrom(_, _, _, _)
CompileFrom(rule_tokens, i, regex, url_params) ==
    IF i > Len(rule_tokens)
    THEN IF (\A k \in DOMAIN url_params : IsIdentifier(url_params[k]))
            /\ NoDuplicates(url_params)
         THEN [ok |-> TRUE, regex |-> regex, url_params |-> url_params]
         ELSE [ok |-> FALSE, regex |-> <<>>, url_params |-> <<>>]
    ELSE IF rule_tokens[i] = <<"<">>
    THEN IF \/ i + 4 > Len(rule_tokens)
            \/ rule_tokens[i + 2] # <<":">>
            \/ rule_tokens[i + 4] # <<">">>
            \/ TYPE_REGEXES(rule_tokens[i + 1]) = "KeyError"
         THEN [ok |-> FALSE, regex |-> <<>>, url_params |-> <<>>]
         ELSE CompileFrom(rule_tokens, i + 5,
                          Append(regex, [kind |-> TYPE_REGEXES(rule_tokens[i + 1]),
                                         text |-> <<>>,
                                         name |-> rule_tokens[i + 3]]),
                          Append(url_params, rule_tokens[i + 3]))
    ELSE IF rule_tokens[i] \in {<<">">>, <<":">>}
    THEN [ok |-> FALSE, regex |-> <<>>, url_params |-> <<>>]
    ELSE CompileFrom(rule_tokens, i + 1,
                     Append(regex, [kind |-> "lit", text |-> rule_tokens[i],
                                    name |-> <<>>]),
                     url_params)

URLRule(url_rule) == CompileFrom(split_re(url_rule), 1, <<>>, <<>>)

\* regex.fullmatch(url_path): the pieces are matched left to right, each
\* greedily (longest prefix first) with backtracking; the result is the first
\* assignment found, with its named groups in order.
RECURSIVE TryLen(_, _, _)
RECURSIVE fullmatch(_, _)
TryLen(regex, s, k) ==
    IF k < 0 THEN [ok |-> FALSE, groups |-> <<>>]
    ELSE LET piece == Head(regex)
             rest == fullmatch(Tail(regex), SubSeq(s, k + 1, Len(s)))
         IN  IF PieceMatches(piece, SubSeq(s, 1, k)) /\ rest.ok
             THEN [ok |-> TRUE,
                   groups |-> IF piece.kind = "lit" THEN rest.groups
                              ELSE <<[name |-> piece.name,
                                      value |-> SubSeq(s, 1, k)]>> \o rest.groups]
             ELSE TryLen(regex, s, k - 1)

fullmatch(regex, s) ==
    IF regex = <<>> THEN [ok |-> s = <<>>, groups |-> <<>>]
    ELSE TryLen(regex, s, Len(s))

\* URLRule.match
URLRule_match(rule, url_path) == fullmatch(rule.regex, url_path).ok

\* URLRule.extract_params: the groupdict of the match (a list of name/value
\* pairs here; the names are distinct).
URLRule_extract_params(rule, url_path) == fullmatch(rule.regex, url_path).groups

(***************************************************************************)
(* Python values and outcomes of calls.                                    *)
(***************************************************************************)
PyStr(s) == [py |-> "str", s |-> s]
PyInt(n) == [py |-> "int", n |-> n]
PyTuple(first, second) == [py |-> "tuple", first |-> first, second |-> second]

Ok(v) == [raised |-> FALSE, value |-> v]
Raise(e) == [raised |-> TRUE, exc |-> e]

(***************************************************************************)
(* exceptions.py: the class hierarchy, with the built-in exception types   *)
(* the endpoints of this model raise.                                      *)
(***************************************************************************)
Base(cls) ==
    CASE cls = "BaseException" -> "object"
      [] cls = "Exception" -> "BaseException"
      [] cls = "LookupError" -> "Exception"
      [] cls = "KeyError" -> "LookupError"
      [] cls = "ValueError" -> "Exception"
      [] cls = "TypeError" -> "Exception"
      [] cls = "BaseAPIException" -> "Exception"
      [] cls = "APIBadRequestError" -> "BaseAPIException"
      [] cls = "APIMethodNotAllowedError" -> "BaseAPIException"
      [] cls = "APIDoesNotExistError" -> "BaseAPIException"
      [] cls = "APIInvalidParameterError" -> "APIBadRequestError"
      [] cls = "APIMissingParameterError" -> "APIBadRequestError"
      [] cls = "APIEndpointNotFoundError" -> "APIDoesNotExistError"
      [] cls = "APIInternalServerError" -> "BaseAPIException"
      [] cls = "APIContextProcessingError" -> "APIInternalServerError"
      [] cls = "APIEndpointDefinitionError" -> "APIInternalServerError"
      [] cls = "APIEndpointRuntimeError" -> "APIInternalServerError"

\* cls.__mro__
RECURSIVE Mro(_)
Mro(cls) == IF cls = "object" THEN <<"object">> ELSE <<cls>> \o Mro(Base(cls))

\* The status_code attribute a class body sets; 0 where it sets none.
OwnStatusCode(cls) ==
    CASE cls = "APIBadRequestError" -> 400
      [] cls = "APIMethodNotAllowedError" -> 405
      [] cls = "APIDoesNotExistError" -> 404
      [] cls = "APIInternalServerError" -> 500
      [] OTHER -> 0

\* Attribute lookup of status_code on a class: the first class of the MRO
\* that sets it (BaseAPIException sets None).
RECURSIVE StatusAlong(_, _)
StatusAlong(mro, i) ==
    IF i > Len(mro) THEN 0
    ELSE IF OwnStatusCode(mro[i]) # 0 THEN OwnStatusCode(mro[i])
    ELSE StatusAlong(mro, i + 1)

\* A class object and a fresh instance of it (before __init__ has run).
TypeObj(cls) == [name |-> cls, mro |-> Mro(cls)]
NewInstance(type) ==
    [py |-> "exc", type |-> type, status_code |-> 0, valid_methods |-> {},
     description |-> [py |-> "None"]]

issubclass(mro, cls) == cls \in Range(mro)
isinstance(obj, cls) == obj.py = "exc" /\ issubclass(obj.type.mro, cls)

\* What the interpreter raises itself.
TypeError == NewInstance(TypeObj("TypeError"))

\* Attribute lookup of description on a class: APIInternalServerError sets
\* a text ("The server encountered an internal error ..."), for which "!"
\* stands; BaseAPIException sets None.
InternalServerDescription == [py |-> "str", s |-> <<"!">>]
DescriptionAlong(mro) ==
    IF "APIInternalServerError" \in Range(mro) THEN InternalServerDescription
    ELSE [py |-> "None"]

\* BaseAPIException.__init__(self, description, status_code=None, ...):
\* Exception.__init__(self) is a TypeError unless self is an exception
\* object; then description = description or the class attribute and
\* status_code = status_code or the class attribute.
BaseAPIException_init(self, description, status_code) ==
    IF self.py # "exc" THEN Raise(TypeError)
    ELSE Ok([self EXCEPT !.description =
                IF description.py = "str" /\ description.s = <<>>
                THEN DescriptionAlong(self.type.mro) ELSE description,
                         !.status_code =
                IF status_code # 0 THEN status_code
                ELSE StatusAlong(self.type.mro, 1)])

\* cls(description) for the classes that inherit __init__.
APIException(cls, description) ==
    BaseAPIException_init(NewInstance(TypeObj(cls)), description, 0)

\* APIMethodNotAllowedError.__init__(self, description, status_code=None,
\* name=None, data=None, valid_methods=None): it calls
\* BaseAPIException.__init__(description, status_code, name, data), so the
\* description takes the place of self and status_code that of description.
APIMethodNotAllowedError(description, valid_methods) ==
    LET self == NewInstance(TypeObj("APIMethodNotAllowedError"))
        base == BaseAPIException_init(description, 0, 0)
    IN  IF base.raised THEN base
        ELSE Ok([self EXCEPT !.valid_methods = valid_methods])

(***************************************************************************)
(* The endpoint functions an application registers.  The code sees a       *)
(* function through inspect.signature (parameters with their annotation    *)
(* and default, the return annotation) and by calling it; `hello` is the   *)
(* endpoint of tests/test_run.py, the others exercise parameters, an       *)
(* explicit status code, a raise and a missing annotation.                 *)
(***************************************************************************)
EndpointFunctions ==
    {"hello", "greet", "item", "created", "boom", "untyped",
     "search", "page", "opt", "label", "ctx", "gone"}

NoDefault == PyStr(<<"_", "m", "i", "s", "s", "i", "n", "g">>)

Parameter(name, annotation) ==
    [name |-> name, annotation |-> annotation, has_default |-> FALSE,
     default |-> NoDefault]
DefaultParameter(name, annotation, default) ==
    [name |-> name, annotation |-> annotation, has_default |-> TRUE,
     default |-> default]

\* inspect.signature(endpoint)
signature(f) ==
    CASE f = "hello" -> [parameters |-> <<>>, return_annotation |-> "str"]
      [] f = "greet" -> [parameters |-> <<Parameter(<<"n">>, "str")>>,
                         return_annotation |-> "str"]
      [] f = "item" -> [parameters |-> <<Parameter(<<"n">>, "int")>>,
                        return_annotation |-> "str"]
      [] f = "created" -> [parameters |-> <<>>, return_annotation |-> "tuple"]
      [] f = "boom" -> [parameters |-> <<>>, return_annotation |-> "str"]
      \* def gone() -> str: raise APIDoesNotExistError('~')
      [] f = "gone" -> [parameters |-> <<>>, return_annotation |-> "str"]
      [] f = "untyped" -> [parameters |-> <<Parameter(<<"n">>, "empty")>>,
                           return_annotation |-> "str"]
      \* def search(q: str) -> str
      [] f = "search" -> [parameters |-> <<Parameter(<<"q">>, "str")>>,
                          return_annotation |-> "str"]
      \* def page(p: int = 1) -> str
      [] f = "page" -> [parameters |-> <<DefaultParameter(<<"p">>, "int", PyInt(1))>>,
                        return_annotation |-> "str"]
      \* def opt(p: int = None) -> str
      [] f = "opt" -> [parameters |->
                          <<DefaultParameter(<<"p">>, "int", [py |-> "None"])>>,
                       return_annotation |-> "str"]
      \* def label(s: str = None) -> str
      [] f = "label" -> [parameters |->
                            <<DefaultParameter(<<"s">>, "str", [py |-> "None"])>>,
                         return_annotation |-> "str"]
      \* def ctx(c: Context, h: Headers) -> str
      [] f = "ctx" -> [parameters |-> <<Parameter(<<"c">>, "Context"),
                                        Parameter(<<"h">>, "Headers")>>,
                       return_annotation |-> "str"]

\* The exception type the body of f raises, "" when it returns.
Raises(f) ==
    CASE f = "boom" -> "KeyError"
      [] f = "gone" -> "APIDoesNotExistError"
      [] OTHER -> ""

\* The value the body of f returns for its keyword arguments.
Returns(f, kwargs) ==
    CASE f = "hello" -> PyStr(<<"h", "i">>)
      [] f = "greet" -> PyStr(<<"h", "i", " ">> \o kwargs[1].value.s)
      [] f = "item" -> PyStr(<<"i", "t", "e", "m">>)
      [] f = "created" -> PyTuple(PyStr(<<"o", "k">>), 201)
      [] OTHER -> PyStr(<<>>)

(***************************************************************************)
(* routing.py: FunctionParam, EndpointParam, Endpoint, Router              *)
(***************************************************************************)
\* A message of the code whose wording the model does not look at (none
\* of them is empty), and a message made by % with the values args.
Text == PyStr(<<"~">>)
Message(args) == [py |-> "message", args |-> args]

\* FunctionParam.from_inspect as called by Endpoint.__init__ (cls is
\* EndpointParam, whose location starts as None).
from_inspect_untyped(inspect_param, type_mandatory) ==
    Ok([name |-> inspect_param.name, type_ |-> inspect_param.annotation,
        has_default |-> inspect_param.has_default,
        default |-> inspect_param.default, location |-> "None"])

from_inspect(inspect_param, type_mandatory) ==
    IF type_mandatory /\ inspect_param.annotation = "empty"
    THEN Raise(APIException("APIEndpointDefinitionError", Text).value)
    ELSE Ok([name |-> inspect_param.name, type_ |-> inspect_param.annotation,
             has_default |-> inspect_param.has_default,
             default |-> inspect_param.default, location |-> "None"])

\* Endpoint.__init__.  id stands for the identity of the new object.
Endpoint(url_rule, endpoint, methods, id) ==
    LET rule == URLRule(url_rule)
        sig == signature(endpoint)
        made == [i \in DOMAIN sig.parameters |->
                    from_inspect(sig.parameters[i], TRUE)]
        names == {sig.parameters[i].name : i \in DOMAIN sig.parameters}
    IN  IF ~rule.ok
        THEN Raise(APIException("APIEndpointDefinitionError", Text).value)
        ELSE IF \E i \in DOMAIN made : made[i].raised
        THEN Raise(APIException("APIEndpointDefinitionError", Text).value)
        ELSE IF \E k \in DOMAIN rule.url_params : rule.url_params[k] \notin names
        THEN Raise(APIException("APIEndpointDefinitionError", Text).value)
        ELSE Ok([id |-> id,
                 name |-> endpoint,
                 methods |-> methods,
                 endpoint |-> endpoint,
                 url_rule |-> rule,
                 parameters |->
                    [i \in DOMAIN made |->
                        IF made[i].value.name \in Range(rule.url_params)
                        THEN [made[i].value EXCEPT !.location = "path"]
                        ELSE made[i].value],
                 result |-> sig.return_annotation])

\* Endpoint.match
Endpoint_match(ep, url_path, method) ==
    <<URLRule_match(ep.url_rule, url_path), method \in Range(ep.methods)>>

\* Router.add_rule: the new list of endpoints, or the exception of
\* Endpoint.__init__ (and then nothing is appended).
add_rule(eps, url_rule, endpoint, methods) ==
    LET made == Endpoint(url_rule, endpoint, methods, Len(eps) + 1)
    IN  IF made.raised THEN made ELSE Ok(Append(eps, made.value))

\* Router.determine_endpoint: the loop over self.endpoints from index i on
\* with the methods gathered so far, then the two raise statements.
RECURSIVE determine_from(_, _, _, _, _)
determine_from(eps, i, url_path, method, available_methods) ==
    IF i > Len(eps)
    THEN IF Cardinality(available_methods) > 0
         THEN LET made == APIMethodNotAllowedError(Text, available_methods)
              IN  IF made.raised THEN made ELSE Raise(made.value)
         ELSE Raise(APIException("APIEndpointNotFoundError", Text).value)
    ELSE LET m == Endpoint_match(eps[i], url_path, method)
         IN  IF m[1] /\ m[2] THEN Ok(eps[i])
             ELSE IF m[1]
             THEN determine_from(eps, i + 1, url_path, method,
                                 available_methods \cup Range(eps[i].methods))
             ELSE determine_from(eps, i + 1, url_path, method, available_methods)

\* A router that settles on the first endpoint whose pattern matches the path.
determine_endpoint_first_path(eps, url_path, method) ==
    LET hits == {i \in DOMAIN eps : Endpoint_match(eps[i], url_path, method)[1]}
    IN  IF hits = {} THEN determine_from(eps, 1, url_path, method, {})
        ELSE LET i == CHOOSE k \in hits : \A j \in hits : k <= j
             IN  determine_from(<<eps[i]>>, 1, url_path, method, {})

determine_endpoint(eps, url_path, method) ==
    determine_from(eps, 1, url_path, method, {})

\* A reading of the methods of a path that stops at the first route
\* matching it.
get_available_methods_first(eps, url_path) ==
    LET matching == {j \in DOMAIN eps : Endpoint_match(eps[j], url_path, "None")[1]}
    IN  IF matching = {} THEN {}
        ELSE Range(eps[CHOOSE i \in matching : \A j \in matching : i <= j].methods)

\* Router.get_available_methods (the list of a set: its order is not fixed,
\* so the model keeps the set).
get_available_methods(eps, url_path) ==
    UNION {Range(eps[i].methods) :
             i \in {j \in DOMAIN eps : Endpoint_match(eps[j], url_path, "None")[1]}}

(***************************************************************************)
(* utilities.py: SortedList                                                *)
(***************************************************************************)
\* Tuple comparison of the elements (-priority, counter, value): the
\* counters of one list are all different, so the values are never compared.
elem_lt(x, y) == x[1] < y[1] \/ (x[1] = y[1] /\ x[2] < y[2])

\* bisect.insort(a, x), that is insort_right: lo and hi count from 0.
RECURSIVE bisect_right(_, _, _, _)
bisect_right(a, x, lo, hi) ==
    IF lo < hi
    THEN LET mid == (lo + hi) \div 2
         IN  IF elem_lt(x, a[mid + 1]) THEN bisect_right(a, x, lo, mid)
             ELSE bisect_right(a, x, mid + 1, hi)
    ELSE lo

insort(a, x) ==
    LET lo == bisect_right(a, x, 0, Len(a))
    IN  SubSeq(a, 1, lo) \o <<x>> \o SubSeq(a, lo + 1, Len(a))

\* SortedList.__init__
SortedList == [elems |-> <<>>, counter |-> 0]

\* An insertion that keeps the list by ascending priority.
SortedList_add_ascending(self, priority, value) ==
    [elems |-> insort(self.elems, <<priority, self.counter, value>>),
     counter |-> self.counter + 1]

\* SortedList.add
SortedList_add(self, priority, value) ==
    [elems |-> insort(self.elems, <<-priority, self.counter, value>>),
     counter |-> self.counter + 1]

\* SortedList.remove: delete the first element holding the value, if any.
SortedList_remove(self, value) ==
    LET hits == {i \in DOMAIN self.elems : self.elems[i][3] = value}
    IN  IF hits = {} THEN self
        ELSE LET i == CHOOSE k \in hits : \A j \in hits : k <= j
             IN  [self EXCEPT !.elems = SubSeq(self.elems, 1, i - 1)
                                        \o SubSeq(self.elems, i + 1, Len(self.elems))]

\* SortedList.__iter__
SortedList_iter(self) == [i \in DOMAIN self.elems |-> self.elems[i][3]]

(***************************************************************************)
(* utilities.py: exc_type_compare; routing.py: ExceptionHandler            *)
(***************************************************************************)
\* The exception types handlers are registered for, and the functions
\* registered as handlers.
ExcTypes == {"Exception", "LookupError", "KeyError", "ValueError"}
HandlerFunctions == {"h1", "h2", "h3"}

\* str.__lt__ on the class names of the model: their rank in ASCII order.
NamesInOrder ==
    <<"Exception", "KeyError", "LookupError", "TypeError", "ValueError">>
name_lt(a, b) ==
    \E i, j \in DOMAIN NamesInOrder :
        NamesInOrder[i] = a /\ NamesInOrder[j] = b /\ i < j

exc_type_compare(exc_type1, exc_type2) ==
    IF issubclass(Mro(exc_type1), exc_type2) THEN -1
    ELSE IF issubclass(Mro(exc_type2), exc_type1) THEN 1
    ELSE LET sc_depth1 == Len(Mro(exc_type1))
             sc_depth2 == Len(Mro(exc_type2))
         IN  IF sc_depth1 = sc_depth2
             THEN IF name_lt(exc_type1, exc_type2) THEN -1 ELSE 1
             ELSE IF sc_depth1 < sc_depth2 THEN -1 ELSE 1

\* inspect.signature(handler) of the handler functions.
handler_signature(h) ==
    CASE h = "h1" -> <<Parameter(<<"e">>, "Exception")>>
      [] h = "h2" -> <<Parameter(<<"x">>, "Exception"),
                       Parameter(<<"c">>, "Context")>>
      [] h = "h3" -> <<Parameter(<<"e">>, "Exception"),
                       Parameter(<<"extra">>, "int")>>

\* ExceptionHandler.__init__
ExceptionHandler(exc_type, handler) ==
    [exc_type |-> exc_type, handler |-> handler,
     parameters |-> [i \in DOMAIN handler_signature(handler) |->
                        from_inspect(handler_signature(handler)[i], FALSE).value]]

\* ExceptionHandler.__lt__
ExceptionHandler_lt(self, other) ==
    exc_type_compare(self.exc_type, other.exc_type) < 0

\* list.sort() of CPython on a list shorter than 64: count_run finds the
\* run the list starts with (reversed when strictly descending), binarysort
\* inserts the remaining elements one by one; only __lt__ is used.
RECURSIVE run_end(_, _, _)
run_end(a, i, descending) ==
    IF i > Len(a) THEN Len(a)
    ELSE IF ExceptionHandler_lt(a[i], a[i - 1]) = descending
         THEN run_end(a, i + 1, descending)
         ELSE i - 1

count_run(a) ==
    IF Len(a) = 1 THEN [n |-> 1, descending |-> FALSE]
    ELSE IF ExceptionHandler_lt(a[2], a[1])
         THEN [n |-> run_end(a, 3, TRUE), descending |-> TRUE]
         ELSE [n |-> run_end(a, 3, FALSE), descending |-> FALSE]

reverse_slice(a, n) ==
    [i \in DOMAIN a |-> IF i <= n THEN a[n + 1 - i] ELSE a[i]]

RECURSIVE binary_search(_, _, _, _)
binary_search(a, pivot, l, r) ==
    IF l < r
    THEN LET p == l + ((r - l) \div 2)
         IN  IF ExceptionHandler_lt(pivot, a[p + 1])
             THEN binary_search(a, pivot, l, p)
             ELSE binary_search(a, pivot, p + 1, r)
    ELSE l

RECURSIVE binarysort(_, _)
binarysort(a, start) ==
    IF start > Len(a) THEN a
    ELSE LET pivot == a[start]
             l == binary_search(a, pivot, 0, start - 1)
         IN  binarysort(SubSeq(a, 1, l) \o <<pivot>> \o SubSeq(a, l + 1, start - 1)
                            \o SubSeq(a, start + 1, Len(a)),
                        start + 1)

list_sort(a) ==
    IF Len(a) < 2 THEN a
    ELSE LET run == count_run(a)
         IN  binarysort(IF run.descending THEN reverse_slice(a, run.n) ELSE a,
                        run.n + 1)

\* Laconic.add_exception_handler: append, then sort.
add_exception_handler(handlers, exc_type, handler) ==
    list_sort(Append(handlers, ExceptionHandler(exc_type, handler)))

(***************************************************************************)
(* app.py: the Laconic application object, registration                    *)
(***************************************************************************)
POSSIBLE_EVENTS ==
    <<"on_app_created", "on_context_init", "on_request_parsed",
      "on_endpoint_determined", "on_response_generated", "on_context_finalize">>

EVENT_PRIO_MIN == -1
EVENT_PRIO_MAX == 100

\* A methods argument: None, or a list of method names.
NoMethods == [none |-> TRUE, list |-> <<>>]
MethodList(list) == [none |-> FALSE, list |-> list]

\* Laconic.add_route up to the call of router.add_rule: the methods list the
\* endpoint is registered with.
route_methods(cfg, methods) ==
    LET given == IF methods.none THEN <<"GET">> ELSE methods.list
    IN  IF cfg.HTTP_AUTO_OPTIONS_RESPONSE /\ "OPTIONS" \notin Range(given)
        THEN Append(given, "OPTIONS")
        ELSE given

\* Laconic.add_route
add_route(cfg, eps, url_rule, endpoint, methods) ==
    add_rule(eps, url_rule, endpoint, route_methods(cfg, methods))

\* A hook as registered: its function, the number of arguments the function
\* takes, and (for the properties only) a serial number standing for the
\* identity of the registration and the priority that was asked for.
Hook(fn, arity, uid, asked) ==
    [fn |-> fn, arity |-> arity, uid |-> uid, asked |-> asked]

\* A registration that stores the priority as it was asked for.
add_event_hook_unclamped(hooks, event, hook, priority) ==
    [hooks EXCEPT ![event] = SortedList_add(@, priority, hook)]

\* Laconic.add_event_hook for a known event: clamp, then SortedList.add.
add_event_hook(hooks, event, hook, priority) ==
    LET clamped == IF priority < EVENT_PRIO_MIN THEN EVENT_PRIO_MIN
                   ELSE IF priority > EVENT_PRIO_MAX THEN EVENT_PRIO_MAX
                   ELSE priority
    IN  [hooks EXCEPT ![event] = SortedList_add(@, clamped, hook)]

\* Laconic.__init__: the registries of a new application; the built-in
\* OPTIONS hook is the first registration of on_endpoint_determined.
new_event_hooks(cfg) ==
    LET empty == [e \in Range(POSSIBLE_EVENTS) |-> SortedList]
    IN  IF cfg.HTTP_AUTO_OPTIONS_RESPONSE
        THEN add_event_hook(empty, "on_endpoint_determined",
                            Hook("_process_http_options", 3, 0, -1), -1)
        ELSE empty

\* Laconic.default_config overridden by the config argument; DEBUG is read
\* by the code but never set, so Config.__missing__ makes it None.
Configs == {[HTTP_AUTO_OPTIONS_RESPONSE |-> b, DEBUG |-> FALSE] : b \in BOOLEAN}

(***************************************************************************)
(* utilities.py: Request, Response, CombinedDict, make_context_response    *)
(***************************************************************************)
PyNone == [py |-> "None"]

\* A dict is a list of [name, value] entries with distinct names.
dict_has(d, key) == \E i \in DOMAIN d : d[i].name = key
dict_get(d, key) == d[CHOOSE i \in DOMAIN d : d[i].name = key].value

\* Request(environ): what the code reads of the werkzeug request.  The
\* query string is args, the JSON body is json (None without one); the form,
\* the files and the cookies are empty.
Request(environ) ==
    [py |-> "Request", method |-> environ.method, path |-> environ.path,
     args |-> environ.args, json |-> environ.json]

\* CombinedDict.__init__ as called by Request.param
CombinedDict(dicts) == SelectSeq(dicts, LAMBDA d : d # PyNone)

Request_param(request) ==
    LET locations == <<[py |-> "dict", items |-> request.args],
                       [py |-> "dict", items |-> <<>>]>>
    IN  CombinedDict(IF request.method \in {"POST", "PUT", "PATCH"}
                     THEN <<request.json, [py |-> "dict", items |-> <<>>],
                            [py |-> "dict", items |-> <<>>]>> \o locations
                     ELSE locations)

\* CombinedDict.__getitem__: the value of the first dict holding the key,
\* None when no dict holds it.
CombinedDict_getitem(dicts, key) ==
    LET holding == {i \in DOMAIN dicts : dict_has(dicts[i].items, key)}
    IN  IF holding = {} THEN PyNone
        ELSE dict_get(dicts[CHOOSE i \in holding : \A j \in holding : i <= j].items,
                      key)

\* str(n) and int(s) for the integers of the model.
DigitChars == <<"0", "1", "2", "3", "4", "5", "6", "7", "8", "9">>
RECURSIVE digits(_)
digits(n) ==
    IF n < 0 THEN <<"-">> \o digits(-n)
    ELSE IF n < 10 THEN <<DigitChars[n + 1]>>
    ELSE digits(n \div 10) \o <<DigitChars[(n % 10) + 1]>>

digit_value(ch) == (CHOOSE i \in DOMAIN DigitChars : DigitChars[i] = ch) - 1
RECURSIVE number(_)
number(w) ==
    IF w = <<>> THEN 0
    ELSE 10 * number(SubSeq(w, 1, Len(w) - 1)) + digit_value(w[Len(w)])

\* 'c', 'c', ... for the characters of s from index i on.
RECURSIVE chars_repr(_, _)
chars_repr(s, i) ==
    IF i > Len(s) THEN <<>>
    ELSE <<"'", s[i], "'">> \o (IF i < Len(s) THEN <<",", " ">> ELSE <<>>)
            \o chars_repr(s, i + 1)

\* str(value) for a str, an int, a (str, int) tuple, a tuple of characters
\* and an exception made without arguments.
py_str(v) ==
    CASE v.py = "str" -> v.s
      [] v.py = "int" -> digits(v.n)
      [] v.py = "tuple" ->
            <<"(", "'">> \o v.first.s \o <<"'", ",", " ">> \o digits(v.second)
                \o <<")">>
      [] v.py = "chars" ->
            <<"(">> \o chars_repr(v.s, 1)
                \o (IF Len(v.s) = 1 THEN <<",">> ELSE <<>>) \o <<")">>
      [] v.py = "exc" -> <<>>
      [] v.py = "None" -> <<"N", "o", "n", "e">>

\* Response(body, status=status, headers=headers): werkzeug answers 200
\* when the status is None.  The Allow header keeps the set of methods that
\* was joined into it; error names the exception whose JSON is the body.
Response(body, status, has_allow, allow, error) ==
    [py |-> "Response", body |-> body,
     status_code |-> IF status = 0 THEN 200 ELSE status,
     has_allow |-> has_allow, allow |-> allow, error |-> error]

NoHeaders == [has_allow |-> FALSE, allow |-> {}]
AllowHeader(methods) == [has_allow |-> TRUE, allow |-> methods]

\* BaseAPIException.as_response and its override in
\* APIMethodNotAllowedError, which adds the Allow header.
as_response(exc, verbose) ==
    IF exc.type.name = "APIMethodNotAllowedError"
    THEN Response(<<>>, exc.status_code, TRUE, exc.valid_methods, exc.type.name)
    ELSE Response(<<>>, exc.status_code, FALSE, {}, exc.type.name)

\* A wrapping that drops the status code a result carries.
make_context_response_default_status(c, response_obj, headers) ==
    LET c1 == IF response_obj.py = "tuple"
              THEN [c EXCEPT !.response = response_obj.first]
              ELSE [c EXCEPT !.response = response_obj]
    IN  IF c1.response.py = "Response" THEN c1
        ELSE [c1 EXCEPT !.response =
                Response(py_str(c1.response), 0, headers.has_allow,
                         headers.allow, "")]

\* make_context_response(context, response_obj, headers)
make_context_response(c, response_obj, headers) ==
    LET c1 == IF response_obj.py = "tuple"
              THEN [c EXCEPT !.response = response_obj.first,
                             !.response_status = response_obj.second]
              ELSE [c EXCEPT !.response = response_obj]
    IN  IF c1.response.py = "Response" THEN c1
        ELSE IF c1.response.py = "exc"
                /\ issubclass(c1.response.type.mro, "BaseAPIException")
        THEN [c1 EXCEPT !.response = as_response(c1.response, FALSE)]
        ELSE [c1 EXCEPT !.response =
                Response(py_str(c1.response), c1.response_status,
                         headers.has_allow, headers.allow, "")]

(***************************************************************************)
(* context.py: Context                                                     *)
(***************************************************************************)
CONTEXT_CREATED == 1
CONTEXT_INITIALIZED == 2
REQUEST_PARSED == 3
ENDPOINT_DETERMINED == 4
RESPONSE_GENERATED == 5
CONTEXT_FINALIZED == 6
CONTEXT_ERROR == -1

\* Context._actions: the states that have a step.
HasAction(state) ==
    state \in {CONTEXT_INITIALIZED, REQUEST_PARSED, ENDPOINT_DETERMINED,
               CONTEXT_ERROR}

\* The result of a method of the Context or of a callback working on it:
\* the Context as the call left it, and the exception that left the call.
Done(c) == [raised |-> FALSE, c |-> c]
Failed(c, exc) == [raised |-> TRUE, c |-> c, exc |-> exc]

\* Context.__init__.  trace and history are not fields of the code: trace
\* lists the callbacks invoked while the request is served (what ran before
\* the Context existed is handed in), history the values state was given.
Context(environ, trace) ==
    [state |-> CONTEXT_CREATED, environ |-> environ, request |-> PyNone,
     endpoint |-> PyNone, response |-> PyNone, response_status |-> 0,
     exception |-> PyNone, trace |-> trace, history |-> <<CONTEXT_CREATED>>]

\* self.state = state
set_state(c, state) ==
    [c EXCEPT !.state = state, !.history = Append(@, state)]

called(c, entry) == [c EXCEPT !.trace = Append(@, entry)]

(***************************************************************************)
(* app.py: hooks and trigger_event                                         *)
(***************************************************************************)
\* The hook functions users register: one that only returns, one that
\* raises ValueError, one that answers the request itself.
HookFunctions == {"noop", "raiser", "responder"}

\* An automatic OPTIONS response that leaves the state as it found it.
process_http_options_state_kept(eps, c) ==
    IF c.request.method # "OPTIONS" THEN c
    ELSE make_context_response(
            c, PyStr(<<>>),
            AllowHeader(get_available_methods(eps, c.request.path)))

\* Laconic._process_http_options(endpoint, request, context)
process_http_options(eps, c) ==
    IF c.request.method # "OPTIONS" THEN c
    ELSE set_state(
            make_context_response(
                c, PyStr(<<>>),
                AllowHeader(get_available_methods(eps, c.request.path))),
            RESPONSE_GENERATED)

\* hook(*args) with nargs arguments, the Context being the last of them
\* when there is one.  A call with the wrong number of arguments is a
\* TypeError and the function does not run.
call_hook(eps, hook, event, nargs, c) ==
    IF hook.arity # nargs THEN Failed(c, TypeError)
    ELSE LET c1 == called(c, [kind |-> "hook", event |-> event,
                              fn |-> hook.fn, uid |-> hook.uid])
         IN  CASE hook.fn = "noop" -> Done(c1)
               [] hook.fn = "raiser" ->
                     Failed(c1, NewInstance(TypeObj("ValueError")))
               [] hook.fn = "responder" ->
                     Done(set_state(
                            make_context_response(
                                c1, PyStr(<<"m", "i", "n", "e">>), NoHeaders),
                            RESPONSE_GENERATED))
               [] hook.fn = "_process_http_options" ->
                     Done(process_http_options(eps, c1))

\* Laconic.trigger_event(event, *args) for a known event: the hooks are
\* called in the order SortedList.__iter__ gives; the first exception ends
\* the loop and leaves trigger_event.
RECURSIVE call_hooks(_, _, _, _, _, _)
call_hooks(eps, hooks, i, event, nargs, c) ==
    IF i > Len(hooks) THEN Done(c)
    ELSE LET r == call_hook(eps, hooks[i], event, nargs, c)
         IN  IF r.raised THEN r
             ELSE call_hooks(eps, hooks, i + 1, event, nargs, r.c)

trigger_event(app, event, nargs, c) ==
    call_hooks(app.endpoints, SortedList_iter(app.event_hooks[event]), 1,
               event, nargs, c)

(***************************************************************************)
(* context.py: parameter binding                                           *)
(***************************************************************************)
\* param.type_(value) for the annotations of the model: str and int.  int
\* of a str that is not an optionally signed run of digits is a ValueError
\* (the requests of the model hold no blanks, underscores or plus signs).
coerce_unguarded(type_, value) == Ok(value)
coerce(type_, value) ==
    CASE type_ = "str" -> Ok(PyStr(py_str(value)))
      [] type_ = "int" ->
            IF value.py = "int" THEN Ok(value)
            ELSE IF value.py = "str" /\ Unsigned(value.s) # <<>>
                    /\ IsDigits(Unsigned(value.s))
            THEN Ok(PyInt(IF value.s[1] = "-" THEN -number(Unsigned(value.s))
                          ELSE number(value.s)))
            ELSE Raise(NewInstance(TypeObj(IF value.py = "str" THEN "ValueError"
                                           ELSE "TypeError")))
      [] OTHER -> Raise(TypeError)

select_endpoint_params_unchecked(endpoint, c, url_params) ==
    Ok([i \in DOMAIN endpoint.parameters |->
           [name |-> endpoint.parameters[i].name, value |-> PyNone]])

\* _select_endpoint_params: the loop over endpoint.parameters from index i
\* on, params_dict holding the arguments bound so far.
RECURSIVE select_endpoint_params_from(_, _, _, _, _)
select_endpoint_params_from(parameters, i, c, url_params, params_dict) ==
    IF i > Len(parameters) THEN Ok(params_dict)
    ELSE LET param == parameters[i]
             bind(v) == select_endpoint_params_from(
                            parameters, i + 1, c, url_params,
                            Append(params_dict, [name |-> param.name, value |-> v]))
         IN  IF param.type_ = "Headers" THEN bind([py |-> "Headers"])
             ELSE IF param.type_ = "Context" THEN bind([py |-> "Context"])
             ELSE
             LET raw == IF param.location = "path"
                        THEN PyStr(dict_get(url_params, param.name))
                        ELSE CombinedDict_getitem(Request_param(c.request),
                                                  param.name)
                 missing == raw = PyNone /\ ~param.has_default
                 value == IF raw = PyNone THEN param.default ELSE raw
                 made == coerce(param.type_, value)
             IN  IF missing
                 THEN Raise(APIException("APIMissingParameterError",
                                         Message(<<param.name>>)).value)
                 ELSE IF made.raised
                 THEN Raise(APIException("APIInvalidParameterError",
                                         Message(<<param.name, made.exc>>)).value)
                 ELSE bind(made.value)

select_endpoint_params(endpoint, c, url_params) ==
    select_endpoint_params_from(endpoint.parameters, 1, c, url_params, <<>>)

\* _select_handler_params: the parameters annotated with an exception type
\* get the exception, those annotated Context the context, the others
\* nothing.
select_handler_params(handler, c, exception) ==
    LET bound == SelectSeq(handler.parameters,
                           LAMBDA p : p.type_ = "Context"
                                      \/ (p.type_ # "empty" /\ p.type_ # "str"
                                          /\ p.type_ # "int"
                                          /\ issubclass(Mro(p.type_), "Exception")))
    IN  [i \in DOMAIN bound |->
            [name |-> bound[i].name,
             value |-> IF bound[i].type_ = "Context" THEN [py |-> "Context"]
                       ELSE exception]]

(***************************************************************************)
(* routing.py: Endpoint.__call__, EndpointResult; exceptions.py            *)
(***************************************************************************)
\* EndpointResult.__call__: the return annotation called on the result.
\* inspect.Signature.empty (no annotation) takes no argument.
EndpointResult_call(processor, v) ==
    CASE processor = "str" -> Ok(PyStr(py_str(v)))
      [] processor = "tuple" ->
            IF v.py = "tuple" THEN Ok(v) ELSE Ok([py |-> "chars", s |-> py_str(v)])
      [] OTHER -> Raise(TypeError)

\* Endpoint.__call__(**kwargs): self.result(self.endpoint(**kwargs)).
Raised(cls) ==
    IF issubclass(Mro(cls), "BaseAPIException") THEN APIException(cls, Text).value
    ELSE NewInstance(TypeObj(cls))

Endpoint_call(ep, kwargs, c) ==
    LET c1 == called(c, [kind |-> "endpoint", fn |-> ep.endpoint, id |-> ep.id,
                         kwargs |-> kwargs])
    IN  IF Raises(ep.endpoint) # ""
        THEN [raised |-> TRUE, c |-> c1,
              exc |-> Raised(Raises(ep.endpoint))]
        ELSE LET r == EndpointResult_call(ep.result, Returns(ep.endpoint, kwargs))
             IN  IF r.raised THEN [raised |-> TRUE, c |-> c1, exc |-> r.exc]
                 ELSE [raised |-> FALSE, c |-> c1, value |-> r.value]

\* The name type('API' + name, ...) gives the classes made at run time.
api_name(name) ==
    CASE name = "KeyError" -> "APIKeyError"
      [] name = "LookupError" -> "APILookupError"
      [] name = "ValueError" -> "APIValueError"
      [] name = "TypeError" -> "APITypeError"
      [] name = "Exception" -> "APIException"

\* The class type('API' + name, (cls, exc_type), {}) of an exc_type that is
\* not an API exception: its MRO is the new class, the MRO of cls down to
\* BaseAPIException, then the MRO of exc_type.
wrapped_type(cls, exc_type) ==
    [name |-> api_name(exc_type.name),
     mro |-> <<api_name(exc_type.name)>>
             \o SelectSeq(Mro(cls), LAMBDA k : k \notin Range(exc_type.mro))
             \o exc_type.mro]

\* BaseAPIException.from_exception, called on cls; the exceptions of the
\* model are no werkzeug HTTPException, so the status code is 500.
from_exception_unwrapped(cls, exception) == exception

from_exception(cls, exception) ==
    IF isinstance(exception, "BaseAPIException") THEN exception
    ELSE BaseAPIException_init(
            NewInstance(wrapped_type(cls, exception.type)),
            PyStr(py_str(exception)), 500).value

\* BaseAPIException.from_exception_data, called on BaseAPIException.
from_exception_data(exc_val) ==
    IF issubclass(exc_val.type.mro, "BaseAPIException") THEN exc_val
    ELSE BaseAPIException_init(
            NewInstance(wrapped_type("BaseAPIException", exc_val.type)),
            PyStr(py_str(exc_val)), 500).value

\* The body of a handler function: what it returns.
handler_returns(h) ==
    PyStr(<<"b", "y", " ", "h">> \o (CASE h = "h1" -> <<"1">>
                                   [] h = "h2" -> <<"2">>
                                   [] h = "h3" -> <<"3">>))

(***************************************************************************)
(* context.py: the transition methods of the Context                       *)
(***************************************************************************)
ContextProcessingError == APIException("APIContextProcessingError", Text).value

\* Context._init_context
init_context(app, c) ==
    IF c.state # CONTEXT_CREATED THEN Failed(c, ContextProcessingError)
    ELSE LET t == trigger_event(app, "on_context_init", 1, c)
         IN  IF t.raised THEN t
             ELSE Done(set_state(t.c, CONTEXT_INITIALIZED))

\* Context._process_request
process_request(app, c) ==
    IF c.state # CONTEXT_INITIALIZED THEN Failed(c, ContextProcessingError)
    ELSE trigger_event(app, "on_request_parsed", 2,
                       set_state([c EXCEPT !.request = Request(c.environ)],
                                 REQUEST_PARSED))

\* Context._determine_endpoint
determine_endpoint_step(app, c) ==
    IF c.state # REQUEST_PARSED THEN Failed(c, ContextProcessingError)
    ELSE LET r == determine_endpoint(app.endpoints, c.request.path,
                                     c.request.method)
         IN  IF r.raised THEN Failed(c, r.exc)
             ELSE trigger_event(app, "on_endpoint_determined", 3,
                                set_state([c EXCEPT !.endpoint = r.value],
                                          ENDPOINT_DETERMINED))

\* The for loop of the except clause of Context._dispatch_request: the
\* first handler of the list whose exc_type the exception is an instance of,
\* None when there is none.
find_handler(handlers, exc) ==
    LET matching == {i \in DOMAIN handlers : isinstance(exc, handlers[i].exc_type)}
    IN  IF matching = {} THEN PyNone
        ELSE handlers[CHOOSE i \in matching : \A j \in matching : i <= j]

\* The except clause of Context._dispatch_request, entered with exc.
dispatch_except(app, c, exc) ==
    LET exc_handler == find_handler(app.exception_handlers, exc)
    IN  IF exc_handler = PyNone
        THEN Done(set_state(
                    [c EXCEPT !.exception =
                        from_exception("APIEndpointRuntimeError", exc)],
                    CONTEXT_ERROR))
        ELSE LET handler_params == select_handler_params(exc_handler, c, exc)
                 arity == Len(exc_handler.parameters)
                 c1 == called(c, [kind |-> "exception_handler",
                                  fn |-> exc_handler.handler,
                                  exc_type |-> exc_handler.exc_type,
                                  raised |-> exc.type.name,
                                  kwargs |-> handler_params])
             IN  \* exc_handler(**handler_params) leaves the other declared
                 \* parameters without a value; exc_handler(exc, self) needs
                 \* a function of two parameters.
                 IF (handler_params # <<>> /\ Len(handler_params) # arity)
                    \/ (handler_params = <<>> /\ arity # 2)
                 THEN Failed(c, TypeError)
                 ELSE trigger_event(
                        app, "on_response_generated", 1,
                        set_state(
                            make_context_response(
                                c1, handler_returns(exc_handler.handler), NoHeaders),
                            RESPONSE_GENERATED))

\* A dispatch that binds the parameters inside the try statement.
dispatch_request_binding_tried(app, c) ==
    LET endpoint_params ==
            select_endpoint_params(
                c.endpoint, c,
                URLRule_extract_params(c.endpoint.url_rule, c.request.path))
    IN  IF endpoint_params.raised THEN dispatch_except(app, c, endpoint_params.exc)
        ELSE LET r == Endpoint_call(c.endpoint, endpoint_params.value, c)
             IN  IF r.raised THEN dispatch_except(app, r.c, r.exc)
                 ELSE trigger_event(
                        app, "on_response_generated", 2,
                        set_state(make_context_response(r.c, r.value, NoHeaders),
                                  RESPONSE_GENERATED))

\* Context._dispatch_request
dispatch_request(app, c) ==
    IF c.state # ENDPOINT_DETERMINED THEN Failed(c, ContextProcessingError)
    ELSE LET endpoint_params ==
                select_endpoint_params(
                    c.endpoint, c,
                    URLRule_extract_params(c.endpoint.url_rule, c.request.path))
         IN  IF endpoint_params.raised THEN Failed(c, endpoint_params.exc)
             ELSE LET r == Endpoint_call(c.endpoint, endpoint_params.value, c)
                  IN  IF r.raised THEN dispatch_except(app, r.c, r.exc)
                      ELSE LET t == trigger_event(
                                        app, "on_response_generated", 2,
                                        set_state(
                                            make_context_response(r.c, r.value,
                                                                  NoHeaders),
                                            RESPONSE_GENERATED))
                           IN  IF t.raised THEN dispatch_except(app, t.c, t.exc)
                               ELSE t

\* Context._process_error leaving the state as it found it.
process_error_state_kept(app, c) ==
    IF c.state # CONTEXT_ERROR THEN Failed(c, ContextProcessingError)
    ELSE trigger_event(app, "on_response_generated", 2,
                       [c EXCEPT !.response =
                           as_response(c.exception, app.config.DEBUG)])

\* Context._process_error
process_error(app, c) ==
    IF c.state # CONTEXT_ERROR THEN Failed(c, ContextProcessingError)
    ELSE trigger_event(app, "on_response_generated", 2,
                       set_state([c EXCEPT !.response =
                                     as_response(c.exception, app.config.DEBUG)],
                                 RESPONSE_GENERATED))

finalize_context_unguarded(app, c) ==
    LET t == trigger_event(app, "on_context_finalize", 1, c)
    IN  IF t.raised THEN t
        ELSE Done(set_state(t.c, CONTEXT_FINALIZED))

\* Context._finalize_context
finalize_context(app, c) ==
    IF c.state # RESPONSE_GENERATED THEN Failed(c, ContextProcessingError)
    ELSE LET t == trigger_event(app, "on_context_finalize", 1, c)
         IN  IF t.raised THEN t
             ELSE Done(set_state(t.c, CONTEXT_FINALIZED))

\* Context.__exit__ when the with block ended normally, and when exc_val
\* left it.  It returns True (the exception is swallowed) unless
\* _process_error or _finalize_context raises.
exit_normally(app, c) == finalize_context(app, c)

exit_with_unrendered(app, c, exc_val) ==
    Done(set_state(set_state(c, CONTEXT_ERROR), CONTEXT_FINALIZED))

exit_with(app, c, exc_val) ==
    LET r == process_error(app,
                 [set_state(c, CONTEXT_ERROR)
                    EXCEPT !.exception = from_exception_data(exc_val)])
    IN  IF r.raised THEN r ELSE finalize_context(app, r.c)

(***************************************************************************)
(* State                                                                   *)
(***************************************************************************)
VARIABLES
    config,              \* Laconic.config
    endpoints,           \* Laconic.router.endpoints
    exception_handlers,  \* Laconic.exception_handlers
    event_hooks,         \* Laconic.event_hooks
    serial,              \* number of hook registrations made by the user
    phase,               \* "setup" while registering, then "serving"
    probe,               \* the last direct call of a registry operation
    requests             \* the calls of Laconic.application, one per request

appVars == <<config, endpoints, exception_handlers, event_hooks, serial>>
vars == <<config, endpoints, exception_handlers, event_hooks, serial, phase,
          probe, requests>>

\* The application object as the methods of a Context see it.
App == [config |-> config, endpoints |-> endpoints,
        exception_handlers |-> exception_handlers, event_hooks |-> event_hooks]

NoProbe == [op |-> "none"]

\* The calls of Laconic.application the model follows.
RequestIds == {1}

\* A call of Laconic.application: where it stands (pc), its Context, the
\* exception on its way out of the with block or of the call, and the
\* response handed to the transport.
Idle == [pc |-> "idle", context |-> PyNone, pending |-> PyNone, sent |-> PyNone]

\* Laconic(name, config): no routes argument.
InitApp ==
    /\ config \in Configs
    /\ endpoints = <<>>
    /\ exception_handlers = <<>>
    /\ event_hooks = new_event_hooks(config)
    /\ serial = 0
    /\ phase = "setup"
    /\ probe = NoProbe
    /\ requests = [r \in RequestIds |-> Idle]

\* Registration is over.
Serve ==
    /\ phase = "setup"
    /\ phase' = "serving"
    /\ probe' = NoProbe
    /\ UNCHANGED <<appVars, requests>>

(***************************************************************************)
(* The Router on its own: routes are added, then paths are resolved.       *)
(***************************************************************************)
\* URL rules and endpoints of the routes, the methods arguments, and the
\* requests resolved.
TplA == <<"/", "a">>
TplB == <<"/", "b">>
TplString == <<"/", "<", "s", "t", "r", "i", "n", "g", ":", "n", ">">>
TplInt == <<"/", "<", "i", "n", "t", ":", "n", ">">>
TplUnclosed == <<"/", "<", "i", "n", "t", ":", "n">>
RouteDecls ==
    {[url_rule |-> TplA, endpoint |-> "hello"],
     [url_rule |-> TplString, endpoint |-> "greet"],
     [url_rule |-> TplInt, endpoint |-> "item"],
     [url_rule |-> TplInt, endpoint |-> "hello"],
     [url_rule |-> TplInt, endpoint |-> "untyped"],
     [url_rule |-> TplUnclosed, endpoint |-> "item"]}
MethodArgs == {NoMethods, MethodList(<<>>), MethodList(<<"POST">>)}
Paths == {<<"/", "a">>, <<"/", "7">>}
RouterMethods == {"GET", "POST"}
Methods == {"GET", "POST", "OPTIONS"}

\* app.add_route(url_rule, endpoint, methods); an APIEndpointDefinitionError
\* leaves the router as it was.
AddRoute ==
    /\ phase = "setup"
    /\ Len(endpoints) < MaxRoutes
    /\ \E d \in RouteDecls, m \in MethodArgs :
          LET r == add_route(config, endpoints, d.url_rule, d.endpoint, m)
          IN  /\ endpoints' = IF r.raised THEN endpoints ELSE r.value
              /\ probe' = [op |-> "add_route", raised |-> r.raised,
                           url_rule |-> d.url_rule, endpoint |-> d.endpoint,
                           error |-> IF r.raised THEN r.exc.type.name ELSE "",
                           before |-> endpoints]
    /\ UNCHANGED <<config, exception_handlers, event_hooks, serial, phase, requests>>

\* router.determine_endpoint(url_path, method), once the routes are fixed.
Resolve ==
    /\ phase = "serving"
    /\ probe = NoProbe
    /\ \E p \in Paths, m \in RouterMethods :
          probe' = [op |-> "determine_endpoint", url_path |-> p, method |-> m,
                    result |-> determine_endpoint(endpoints, p, m)]
    /\ UNCHANGED <<appVars, phase, requests>>

NextRouter == AddRoute \/ Serve \/ Resolve
SpecRouter == InitApp /\ [][NextRouter]_vars

(***************************************************************************)
(* The hook registry on its own: hooks are added and removed, events are   *)
(* triggered.                                                              *)
(***************************************************************************)
RegistryEvents == {"on_endpoint_determined", "on_context_init"}
Priorities == {-5, -1, 1, 200}

\* The number of arguments trigger_event is documented to pass for an event
\* (the comments of POSSIBLE_EVENTS).
ArgCount(event) ==
    CASE event = "on_app_created" -> 0
      [] event \in {"on_context_init", "on_context_finalize"} -> 1
      [] event \in {"on_request_parsed", "on_response_generated"} -> 2
      [] event = "on_endpoint_determined" -> 3

UserHooks(event) == Cardinality({i \in DOMAIN event_hooks[event].elems :
                                    event_hooks[event].elems[i][3].uid > 0})

\* app.add_event_hook(event, hook, priority) with a new function written
\* for the event.
AddEventHook(decls, max) ==
    /\ phase = "setup"
    /\ serial < max
    /\ \E d \in decls :
          /\ event_hooks' = add_event_hook(
                                event_hooks, d.event,
                                Hook(d.fn, ArgCount(d.event), serial + 1, d.priority),
                                d.priority)
          /\ probe' = [op |-> "add_event_hook", event |-> d.event]
    /\ serial' = serial + 1
    /\ UNCHANGED <<config, endpoints, exception_handlers, phase, requests>>

RegistryHookDecls ==
    [event : RegistryEvents, fn : {"noop"}, priority : Priorities]
AddRegistryHook == AddEventHook(RegistryHookDecls, MaxHooks)

\* app.event_hooks[event].remove(hook) of a registered hook.
RemoveHook ==
    /\ phase = "setup"
    /\ \E e \in RegistryEvents :
          \E i \in DOMAIN event_hooks[e].elems :
              /\ event_hooks[e].elems[i][3].uid > 0
              /\ event_hooks' = [event_hooks EXCEPT
                                   ![e] = SortedList_remove(@, event_hooks[e].elems[i][3])]
              /\ probe' = [op |-> "remove", event |-> e]
    /\ UNCHANGED <<config, endpoints, exception_handlers, serial, phase, requests>>

\* A Context that has parsed a GET of /a, for the hooks to be called with.
SomeContext ==
    LET environ == [method |-> "GET", path |-> <<"/", "a">>, args |-> <<>>,
                    json |-> PyNone]
    IN  [Context(environ, <<>>) EXCEPT !.request = Request(environ)]

\* app.trigger_event(event, ...): probe keeps the hooks called, in order.
Trigger ==
    /\ phase = "serving"
    /\ probe = NoProbe
    /\ \E e \in RegistryEvents :
          probe' = [op |-> "trigger_event", event |-> e,
                    called |-> trigger_event(App, e, ArgCount(e), SomeContext).c.trace]
    /\ UNCHANGED <<appVars, phase, requests>>

NextHooks == AddRegistryHook \/ RemoveHook \/ Serve \/ Trigger
SpecHooks == InitApp /\ [][NextHooks]_vars

(***************************************************************************)
(* The exception handlers on their own: handlers are added, then the       *)
(* handler of an exception is looked up.                                   *)
(***************************************************************************)
\* app.add_exception_handler(exc_type, handler)
AddExceptionHandler(decls, max) ==
    /\ phase = "setup"
    /\ Len(exception_handlers) < max
    /\ \E d \in decls :
          exception_handlers' = add_exception_handler(exception_handlers,
                                                      d.exc_type, d.handler)
    /\ probe' = [op |-> "add_exception_handler"]
    /\ UNCHANGED <<config, endpoints, event_hooks, serial, phase, requests>>

RegistryHandlerDecls == [exc_type : ExcTypes, handler : {"h1"}]
AddRegistryHandler == AddExceptionHandler(RegistryHandlerDecls, MaxExcHandlers)

\* The handler loop of Context._dispatch_request for an exception of class
\* cls raised by an endpoint.
FindHandler ==
    /\ phase = "serving"
    /\ probe = NoProbe
    /\ \E cls \in ExcTypes :
          probe' = [op |-> "find_handler", raised |-> cls,
                    found |-> find_handler(exception_handlers,
                                           NewInstance(TypeObj(cls)))]
    /\ UNCHANGED <<appVars, phase, requests>>

NextHandlers == AddRegistryHandler \/ Serve \/ FindHandler
SpecHandlers == InitApp /\ [][NextHandlers]_vars

(***************************************************************************)
(* The application serving requests: Laconic(name, config, routes=...),    *)
(* registration of hooks and exception handlers, then calls of             *)
(* Laconic.application.                                                    *)
(***************************************************************************)
TplGreet == <<"/", "g", "/">> \o Tail(TplString)
RouteGreet == [url_rule |-> TplGreet, endpoint |-> "greet", methods |-> NoMethods]
RouteHello == [url_rule |-> TplA, endpoint |-> "hello", methods |-> NoMethods]
RouteCreated == [url_rule |-> TplA, endpoint |-> "created",
                 methods |-> MethodList(<<"POST">>)]
RouteBoom == [url_rule |-> TplB, endpoint |-> "boom", methods |-> NoMethods]
RouteGone == [url_rule |-> TplB, endpoint |-> "gone",
              methods |-> MethodList(<<"POST">>)]
RouteSearch == [url_rule |-> TplA, endpoint |-> "search", methods |-> NoMethods]
RouteItem == [url_rule |-> TplString, endpoint |-> "item", methods |-> NoMethods]
RouteTables == {<<RouteGreet>>,
                <<RouteGreet, RouteHello, RouteCreated, RouteBoom, RouteGone>>,
                <<RouteSearch, RouteItem>>}

\* The requests: GET, POST and OPTIONS of /g/w, /a, /b and /n.
Environs ==
    {[method |-> m, path |-> p, args |-> <<>>, json |-> PyNone] :
        m \in Methods,
        p \in {<<"/", "g", "/", "w">>, <<"/", "a">>, <<"/", "b">>, <<"/", "n">>}}

\* The hooks and the exception handlers the user registers.
AppHookDecls ==
    {[event |-> "on_endpoint_determined", fn |-> "responder", priority |-> 5],
     [event |-> "on_endpoint_determined", fn |-> "responder", priority |-> -5],
     [event |-> "on_endpoint_determined", fn |-> "raiser", priority |-> 1],
     [event |-> "on_response_generated", fn |-> "noop", priority |-> 1],
     [event |-> "on_response_generated", fn |-> "raiser", priority |-> 1],
     [event |-> "on_context_init", fn |-> "raiser", priority |-> 1],
     [event |-> "on_context_finalize", fn |-> "raiser", priority |-> 1],
     [event |-> "on_app_created", fn |-> "raiser", priority |-> 1]}
AppHandlerDecls ==
    {[exc_type |-> "KeyError", handler |-> "h1"],
     [exc_type |-> "LookupError", handler |-> "h2"],
     [exc_type |-> "ValueError", handler |-> "h1"],
     [exc_type |-> "KeyError", handler |-> "h3"],
     [exc_type |-> "Exception", handler |-> "h1"]}

\* Laconic.add_routes(routes)
RECURSIVE add_routes(_, _, _, _)
add_routes(cfg, eps, routes, i) ==
    IF i > Len(routes) THEN eps
    ELSE add_routes(cfg,
                    add_route(cfg, eps, routes[i].url_rule, routes[i].endpoint,
                              routes[i].methods).value,
                    routes, i + 1)

\* Laconic(name, config, routes=routes)
InitServer ==
    /\ config \in Configs
    /\ \E routes \in RouteTables : endpoints = add_routes(config, <<>>, routes, 1)
    /\ exception_handlers = <<>>
    /\ event_hooks = new_event_hooks(config)
    /\ serial = 0
    /\ phase = "setup"
    /\ probe = NoProbe
    /\ requests = [r \in RequestIds |-> Idle]

AddAppHook == AddEventHook(AppHookDecls, MaxAppHooks)
AddAppHandler == AddExceptionHandler(AppHandlerDecls, MaxAppHandlers)

\* Laconic.application(environ, start_response) up to the loop over
\* context.do_next(): the on_app_created hooks, which run outside the try
\* statement, then Context(self, environ) and Context.__enter__.
Application(r) ==
    /\ phase = "serving"
    /\ requests[r].pc = "idle"
    /\ \E environ \in Environs :
          LET t == trigger_event(App, "on_app_created", 0, Context(environ, <<>>))
              e == init_context(App, Context(environ, t.c.trace))
          IN  requests' = [requests EXCEPT ![r] =
                  IF t.raised
                  THEN [@ EXCEPT !.pc = "escaped", !.pending = t.exc]
                  ELSE IF e.raised
                  THEN [@ EXCEPT !.pc = "except", !.context = e.c,
                                 !.pending = e.exc]
                  ELSE [@ EXCEPT !.pc = "loop", !.context = e.c]]
    /\ UNCHANGED <<appVars, phase, probe>>

\* The loop of Context.do_next runs while the state is not
\* RESPONSE_GENERATED and calls the method Context._actions names for the
\* state; each of the four actions below is the turn for one state that has
\* an entry.  Turned is the call after a turn, n being what the method did:
\* it returned or it raised.
Turned(r, n) ==
    [requests EXCEPT ![r] =
        IF n.raised
        THEN [@ EXCEPT !.pc = "raised", !.context = n.c, !.pending = n.exc]
        ELSE [@ EXCEPT !.context = n.c]]

\* The turn of the loop that calls Context._process_request.
ProcessRequest(r) ==
    /\ requests[r].pc = "loop"
    /\ requests[r].context.state = CONTEXT_INITIALIZED
    /\ requests' = Turned(r, process_request(App, requests[r].context))
    /\ UNCHANGED <<appVars, phase, probe>>

\* The turn of the loop that calls Context._determine_endpoint.
DetermineEndpoint(r) ==
    /\ requests[r].pc = "loop"
    /\ requests[r].context.state = REQUEST_PARSED
    /\ requests' = Turned(r, determine_endpoint_step(App, requests[r].context))
    /\ UNCHANGED <<appVars, phase, probe>>

\* The turn of the loop that calls Context._dispatch_request, the response
\* kept in one place for all the calls of the application.
DispatchRequest_one_response(r) ==
    /\ requests[r].pc = "loop"
    /\ requests[r].context.state = ENDPOINT_DETERMINED
    /\ LET n == dispatch_request(App, requests[r].context)
       IN  requests' = [q \in DOMAIN requests |->
               IF q = r THEN Turned(r, n)[r]
               ELSE IF requests[q].context = PyNone \/ n.c.response = PyNone
               THEN requests[q]
               ELSE [requests[q] EXCEPT !.context.response = n.c.response]]
    /\ UNCHANGED <<appVars, phase, probe>>

\* The turn of the loop that calls Context._dispatch_request.
DispatchRequest(r) ==
    /\ requests[r].pc = "loop"
    /\ requests[r].context.state = ENDPOINT_DETERMINED
    /\ requests' = Turned(r, dispatch_request(App, requests[r].context))
    /\ UNCHANGED <<appVars, phase, probe>>

\* The turn of the loop that calls Context._process_error.
ProcessError(r) ==
    /\ requests[r].pc = "loop"
    /\ requests[r].context.state = CONTEXT_ERROR
    /\ requests' = Turned(r, process_error(App, requests[r].context))
    /\ UNCHANGED <<appVars, phase, probe>>

\* Context.__exit__, at the end of the loop or with the exception that left
\* it.
ExitContext(r) ==
    /\ \/ requests[r].pc = "raised"
       \/ requests[r].pc = "loop" /\ requests[r].context.state = RESPONSE_GENERATED
    /\ LET x == IF requests[r].pc = "raised"
                THEN exit_with(App, requests[r].context, requests[r].pending)
                ELSE exit_normally(App, requests[r].context)
       IN  requests' = [requests EXCEPT ![r] =
               IF x.raised
               THEN [@ EXCEPT !.pc = "except", !.context = x.c, !.pending = x.exc]
               ELSE [@ EXCEPT !.pc = "exited", !.context = x.c,
                              !.pending = PyNone]]
    /\ UNCHANGED <<appVars, phase, probe>>

\* return context.response(environ, start_response)
ReturnResponse(r) ==
    /\ requests[r].pc = "exited"
    /\ requests' = [requests EXCEPT ![r] =
           IF requests[r].context.response.py = "Response"
           THEN [@ EXCEPT !.pc = "done", !.sent = requests[r].context.response]
           ELSE [@ EXCEPT !.pc = "except", !.pending = TypeError]]
    /\ UNCHANGED <<appVars, phase, probe>>

\* The except clause of Laconic.application.
LastResort(r) ==
    /\ requests[r].pc = "except"
    /\ requests' = [requests EXCEPT ![r] =
           [@ EXCEPT !.pc = "done",
                     !.sent = as_response(
                                APIException("APIInternalServerError", Text).value,
                                config.DEBUG)]]
    /\ UNCHANGED <<appVars, phase, probe>>

Next ==
    \/ AddAppHook
    \/ AddAppHandler
    \/ Serve
    \/ \E r \in RequestIds : Application(r)
    \/ \E r \in RequestIds : ProcessRequest(r)
    \/ \E r \in RequestIds : DetermineEndpoint(r)
    \/ \E r \in RequestIds : DispatchRequest(r)
    \/ \E r \in RequestIds : ProcessError(r)
    \/ \E r \in RequestIds : ExitContext(r)
    \/ \E r \in RequestIds : ReturnResponse(r)
    \/ \E r \in RequestIds : LastResort(r)
Spec == InitServer /\ [][Next]_vars

(***************************************************************************)
(* The parameter binder: an application with one route, and                *)
(* Context._dispatch_request called for requests of that route.            *)
(***************************************************************************)
BothMethods == MethodList(<<"GET", "POST">>)
BinderRoutes ==
    {[url_rule |-> TplA, endpoint |-> "search", methods |-> BothMethods],
     [url_rule |-> TplA, endpoint |-> "page", methods |-> BothMethods],
     [url_rule |-> TplA, endpoint |-> "opt", methods |-> BothMethods],
     [url_rule |-> TplA, endpoint |-> "label", methods |-> BothMethods],
     [url_rule |-> TplA, endpoint |-> "ctx", methods |-> BothMethods],
     [url_rule |-> TplString, endpoint |-> "greet", methods |-> BothMethods],
     [url_rule |-> TplString, endpoint |-> "item", methods |-> BothMethods],
     [url_rule |-> TplInt, endpoint |-> "item", methods |-> BothMethods]}

\* Query strings and JSON bodies of the requests: q=x, p=2, p=x, s=y; a body
\* {"p": 3} and a body {"p": null, "q": null}.
QueryStrings ==
    {<<>>,
     <<[name |-> <<"q">>, value |-> PyStr(<<"x">>)]>>,
     <<[name |-> <<"p">>, value |-> PyStr(<<"2">>)]>>,
     <<[name |-> <<"p">>, value |-> PyStr(<<"x">>)]>>,
     <<[name |-> <<"s">>, value |-> PyStr(<<"y">>)]>>}
JsonBodies ==
    {PyNone,
     [py |-> "dict", items |-> <<[name |-> <<"p">>, value |-> PyInt(3)]>>],
     [py |-> "dict", items |-> <<[name |-> <<"p">>, value |-> PyNone],
                                 [name |-> <<"q">>, value |-> PyNone]>>]}
BinderEnvirons ==
    [method : {"GET", "POST"}, path : Paths, args : QueryStrings, json : JsonBodies]

\* Laconic(name, config, routes=[route])
InitBinder ==
    /\ config \in Configs
    /\ \E route \in BinderRoutes :
          endpoints = add_routes(config, <<>>, <<route>>, 1)
    /\ exception_handlers = <<>>
    /\ event_hooks = new_event_hooks(config)
    /\ serial = 0
    /\ phase = "serving"
    /\ probe = NoProbe
    /\ requests = [r \in RequestIds |-> Idle]

\* The Context of a request whose endpoint has been determined.
Determined(environ, endpoint) ==
    set_state([Context(environ, <<>>) EXCEPT !.request = Request(environ),
                                            !.endpoint = endpoint],
              ENDPOINT_DETERMINED)

\* Context._dispatch_request for a request of the route.
Bind ==
    /\ probe = NoProbe
    /\ \E environ \in BinderEnvirons :
          /\ URLRule_match(endpoints[1].url_rule, environ.path)
          /\ probe' = [op |-> "dispatch_request",
                       context |-> Determined(environ, endpoints[1]),
                       result |-> dispatch_request(
                                     App, Determined(environ, endpoints[1]))]
    /\ UNCHANGED <<appVars, phase, requests>>

NextBinder == Bind
SpecBinder == InitBinder /\ [][NextBinder]_vars

(***************************************************************************)
(* The transition methods of a Context called in any order: an             *)
(* application with routes and a hook for every event of a request, a      *)
(* Context, and calls of the six methods whatever state it is in.          *)
(***************************************************************************)
ContextEvents ==
    <<"on_context_init", "on_request_parsed", "on_endpoint_determined",
      "on_response_generated", "on_context_finalize">>

\* app.add_event_hook(event, hook) for the events from index i on.
RECURSIVE add_event_hooks(_, _)
add_event_hooks(hooks, i) ==
    IF i > Len(ContextEvents) THEN hooks
    ELSE add_event_hooks(
            add_event_hook(hooks, ContextEvents[i],
                           Hook("noop", ArgCount(ContextEvents[i]), i, 1), 1),
            i + 1)

CalledEnvirons ==
    {[method |-> "GET", path |-> <<"/", "a">>, args |-> <<>>, json |-> PyNone],
     [method |-> "GET", path |-> <<"/", "b">>, args |-> <<>>, json |-> PyNone],
     [method |-> "GET", path |-> <<"/", "n">>, args |-> <<>>, json |-> PyNone],
     [method |-> "OPTIONS", path |-> <<"/", "a">>, args |-> <<>>, json |-> PyNone]}

\* Laconic(name, config, routes), the add_event_hook calls and
\* Context(app, environ).
InitCalls ==
    /\ config \in Configs
    /\ endpoints = add_routes(config, <<>>,
                              <<RouteGreet, RouteHello, RouteCreated, RouteBoom>>, 1)
    /\ exception_handlers = <<>>
    /\ event_hooks = add_event_hooks(new_event_hooks(config), 1)
    /\ serial = Len(ContextEvents)
    /\ phase = "serving"
    /\ \E environ \in CalledEnvirons :
          probe = [op |-> "__init__", context |-> Context(environ, <<>>)]
    /\ requests = [r \in RequestIds |-> Idle]

\* What a call of a method leaves: the Context before it, what the call
\* did, and the Context after it.
Call(op, before, result) ==
    [op |-> op, before |-> before, result |-> result, context |-> result.c]

CallInitContext ==
    /\ probe' = Call("_init_context", probe.context,
                     init_context(App, probe.context))
    /\ UNCHANGED <<appVars, phase, requests>>

CallProcessRequest ==
    /\ probe' = Call("_process_request", probe.context,
                     process_request(App, probe.context))
    /\ UNCHANGED <<appVars, phase, requests>>

CallDetermineEndpoint ==
    /\ probe' = Call("_determine_endpoint", probe.context,
                     determine_endpoint_step(App, probe.context))
    /\ UNCHANGED <<appVars, phase, requests>>

CallDispatchRequest ==
    /\ probe' = Call("_dispatch_request", probe.context,
                     dispatch_request(App, probe.context))
    /\ UNCHANGED <<appVars, phase, requests>>

CallProcessError ==
    /\ probe' = Call("_process_error", probe.context,
                     process_error(App, probe.context))
    /\ UNCHANGED <<appVars, phase, requests>>

CallFinalizeContext ==
    /\ probe' = Call("_finalize_context", probe.context,
                     finalize_context(App, probe.context))
    /\ UNCHANGED <<appVars, phase, requests>>

NextCalls ==
    \/ CallInitContext
    \/ CallProcessRequest
    \/ CallDetermineEndpoint
    \/ CallDispatchRequest
    \/ CallProcessError
    \/ CallFinalizeContext
SpecCalls == InitCalls /\ [][NextCalls]_vars

(***************************************************************************)
(* URLRule on its own: a rule is compiled from a template and a path is    *)
(* matched against it.                                                     *)
(***************************************************************************)
\* Templates, as the literal texts and parameter markers they are made of.
Lit(text) == [kind |-> "lit", text |-> text]
Marker(type, name) == [kind |-> "param", type |-> type, name |-> name]
TInt == <<"i", "n", "t">>
TString == <<"s", "t", "r", "i", "n", "g">>
TFloat == <<"f", "l", "o", "a", "t">>
TPath == <<"p", "a", "t", "h">>
RuleShapes ==
    {<<Lit(<<"/", "a">>)>>,
     <<Lit(<<"/">>), Marker(TInt, <<"n">>)>>,
     <<Lit(<<"/">>), Marker(TString, <<"s">>)>>,
     <<Lit(<<"/">>), Marker(TFloat, <<"x">>)>>,
     <<Lit(<<"/", "f", "/">>), Marker(TPath, <<"p">>)>>,
     <<Lit(<<"/">>), Marker(TInt, <<"n">>), Lit(<<"/">>), Marker(TString, <<"s">>)>>,
     <<Lit(<<"/">>), Marker(TString, <<"s">>), Lit(<<"/">>), Marker(TPath, <<"p">>)>>}

\* The text of a template and of a path made from it.
RECURSIVE TemplateText(_)
TemplateText(shape) ==
    IF shape = <<>> THEN <<>>
    ELSE (IF Head(shape).kind = "lit" THEN Head(shape).text
          ELSE <<"<">> \o Head(shape).type \o <<":">> \o Head(shape).name \o <<">">>)
         \o TemplateText(Tail(shape))
RECURSIVE Substitute(_, _)
Substitute(shape, values) ==
    IF shape = <<>> THEN <<>>
    ELSE IF Head(shape).kind = "lit"
         THEN Head(shape).text \o Substitute(Tail(shape), values)
         ELSE Head(values) \o Substitute(Tail(shape), Tail(values))
Markers(shape) == SelectSeq(shape, LAMBDA seg : seg.kind = "param")

\* Values of each type, and texts that are values of none.
ValuesOf(type) ==
    CASE type = TInt -> {<<"7">>, <<"-", "1", "2">>}
      [] type = TString -> {<<"w">>, <<"a", "-", "b">>}
      [] type = TFloat -> {<<"2">>, <<"1", ".", "5">>, <<"-", "3", ".">>}
      [] type = TPath -> {<<"a">>, <<"a", "b">>, <<"a", "/", "b">>, <<"a", "b", "c">>}
AllValues == UNION {ValuesOf(t) : t \in {TInt, TString, TFloat, TPath}}
Assignments(shape) ==
    {v \in [1..Len(Markers(shape)) -> AllValues] :
        \A i \in 1..Len(Markers(shape)) : v[i] \in ValuesOf(Markers(shape)[i].type)}
Variants == {"instance", "leading", "trailing", "empty_value", "non_digit"}
PathFor(shape, values, variant) ==
    CASE variant = "instance" -> Substitute(shape, values)
      [] variant = "leading" -> <<"z">> \o Substitute(shape, values)
      [] variant = "trailing" -> Substitute(shape, values) \o <<"/">>
      [] variant = "empty_value" ->
            Substitute(shape, [i \in DOMAIN values |-> <<>>])
      [] variant = "non_digit" ->
            Substitute(shape, [i \in DOMAIN values |->
                                  IF Markers(shape)[i].type \in {TInt, TFloat}
                                  THEN <<"x">> ELSE values[i]])

\* Laconic(name, config): no route yet.
InitRule ==
    /\ config \in Configs
    /\ endpoints = <<>>
    /\ exception_handlers = <<>>
    /\ event_hooks = new_event_hooks(config)
    /\ serial = 0
    /\ phase = "setup"
    /\ probe = NoProbe
    /\ requests = [r \in RequestIds |-> Idle]

\* rule = URLRule(url_rule); rule.match(url_path) and, when it matches,
\* rule.extract_params(url_path).
Match ==
    /\ probe = NoProbe
    /\ \E shape \in RuleShapes, variant \in Variants :
          \E values \in Assignments(shape) :
              LET rule == URLRule(TemplateText(shape))
                  url_path == PathFor(shape, values, variant)
              IN  /\ rule.ok
                  /\ probe' = [op |-> "match", shape |-> shape, values |-> values,
                               variant |-> variant, url_path |-> url_path,
                               match |-> URLRule_match(rule, url_path),
                               params |-> IF URLRule_match(rule, url_path)
                                          THEN URLRule_extract_params(rule, url_path)
                                          ELSE <<>>]
    /\ UNCHANGED <<appVars, phase, requests>>

NextRule == Match
SpecRule == InitRule /\ [][NextRule]_vars

(***************************************************************************)
(* Two calls of the application at the same time: registration is over and *)
(* the steps of two requests are taken in any order.                       *)
(***************************************************************************)
\* for _ in context.do_next(): pass, by one caller without interruption.
RECURSIVE do_next(_, _)
do_next(app, c) ==
    IF c.state = RESPONSE_GENERATED THEN Done(c)
    ELSE LET n == CASE c.state = CONTEXT_INITIALIZED -> process_request(app, c)
                    [] c.state = REQUEST_PARSED -> determine_endpoint_step(app, c)
                    [] c.state = ENDPOINT_DETERMINED -> dispatch_request(app, c)
                    [] c.state = CONTEXT_ERROR -> process_error(app, c)
                    [] OTHER -> Failed(c, NewInstance(TypeObj("KeyError")))
         IN  IF n.raised THEN n ELSE do_next(app, n.c)

\* Laconic.application(environ, start_response) from its first statement to
\* its return, by one caller without interruption: the request record it
\* ends with.
application(app, environ) ==
    LET t == trigger_event(app, "on_app_created", 0, Context(environ, <<>>))
        e == init_context(app, Context(environ, t.c.trace))
        n == do_next(app, e.c)
        x == IF n.raised THEN exit_with(app, n.c, n.exc)
             ELSE exit_normally(app, n.c)
        last == as_response(APIException("APIInternalServerError", Text).value,
                            app.config.DEBUG)
    IN  IF t.raised
        THEN [pc |-> "escaped", context |-> PyNone, pending |-> t.exc,
              sent |-> PyNone]
        ELSE IF e.raised
        THEN [pc |-> "done", context |-> e.c, pending |-> e.exc, sent |-> last]
        ELSE IF x.raised
        THEN [pc |-> "done", context |-> x.c, pending |-> x.exc, sent |-> last]
        ELSE IF x.c.response.py = "Response"
        THEN [pc |-> "done", context |-> x.c, pending |-> PyNone,
              sent |-> x.c.response]
        ELSE [pc |-> "done", context |-> x.c, pending |-> TypeError,
              sent |-> last]

\* The two calls, and the applications they are made on: the hooks and the
\* exception handler registered before the first request.
TwoRequests == {1, 2}
SharedHookDecls ==
    {[event |-> "on_endpoint_determined", fn |-> "responder", priority |-> 5],
     [event |-> "on_response_generated", fn |-> "noop", priority |-> 1],
     [event |-> "on_response_generated", fn |-> "raiser", priority |-> 1]}
SharedRoutes == <<RouteGreet, RouteHello, RouteCreated, RouteBoom, RouteGone>>

InitShared ==
    /\ config \in Configs
    /\ endpoints = add_routes(config, <<>>, SharedRoutes, 1)
    /\ exception_handlers \in
          {<<>>, add_exception_handler(<<>>, "KeyError", "h1")}
    /\ event_hooks \in
          {new_event_hooks(config)} \cup
          {add_event_hook(new_event_hooks(config), d.event,
                          Hook(d.fn, ArgCount(d.event), 1, d.priority),
                          d.priority) : d \in SharedHookDecls}
    /\ serial = 1
    /\ phase = "serving"
    /\ probe = NoProbe
    /\ requests = [r \in TwoRequests |-> Idle]

NextShared ==
    \/ \E r \in TwoRequests : Application(r)
    \/ \E r \in TwoRequests : ProcessRequest(r)
    \/ \E r \in TwoRequests : DetermineEndpoint(r)
    \/ \E r \in TwoRequests : DispatchRequest(r)
    \/ \E r \in TwoRequests : ProcessError(r)
    \/ \E r \in TwoRequests : ExitContext(r)
    \/ \E r \in TwoRequests : ReturnResponse(r)
    \/ \E r \in TwoRequests : LastResort(r)
SpecShared == InitShared /\ [][NextShared]_vars

(***************************************************************************)
(* utilities.py: AttributeScope, the attributes of a route with those of   *)
(* the application as its parent.                                          *)
(***************************************************************************)
MaxScopes == 2
ScopeKeys == {"a", "b"}
ScopeValues == {PyStr(<<"x">>), PyStr(<<"y">>)}

\* A dict with keys among ScopeKeys.
PyDict(items) == [py |-> "dict", items |-> items]
Dicts == {PyDict(f) : f \in UNION {[S -> ScopeValues] : S \in SUBSET ScopeKeys}}

\* AttributeScope.__init__(attrs, parent)
AttributeScope(attrs, parent) ==
    [py |-> "AttributeScope",
     data |-> IF attrs # PyNone THEN attrs ELSE PyDict(<<>>),
     parent |-> parent]

\* AttributeScope.__getitem__(key)
RECURSIVE AttributeScope_getitem(_, _)
AttributeScope_getitem(self, key) ==
    IF key \in DOMAIN self.data.items THEN self.data
    ELSE IF self.parent # PyNone THEN AttributeScope_getitem(self.parent, key)
    ELSE PyNone

\* AttributeScope.__setitem__(key, value)
AttributeScope_setitem(self, key, value) ==
    [self EXCEPT !.data.items =
        [k \in DOMAIN @ \cup {key} |-> IF k = key THEN value ELSE @[k]]]

\* AttributeScope.__delitem__(key): del self.data[key] is a KeyError for a
\* key the dict does not have.
AttributeScope_delitem(self, key) ==
    IF key \notin DOMAIN self.data.items
    THEN [raised |-> TRUE, self |-> self]
    ELSE [raised |-> FALSE,
          self |-> [self EXCEPT !.data.items =
                       [k \in DOMAIN @ \ {key} |-> @[k]]]]

\* The number of scopes from a scope up to the one without a parent.
RECURSIVE ScopeDepth(_)
ScopeDepth(scope) ==
    IF scope.parent = PyNone THEN 1 ELSE 1 + ScopeDepth(scope.parent)

ScopeProbe(op, scope, key, result) ==
    [op |-> op, scope |-> scope, key |-> key, result |-> result]

\* self.route_attrs = AttributeScope(route_attrs) of Laconic.__init__
InitScope ==
    /\ config \in Configs
    /\ endpoints = <<>>
    /\ exception_handlers = <<>>
    /\ event_hooks = new_event_hooks(config)
    /\ serial = 0
    /\ phase = "setup"
    /\ requests = [r \in RequestIds |-> Idle]
    /\ \E route_attrs \in Dicts \cup {PyNone} :
          probe = ScopeProbe("__init__", AttributeScope(route_attrs, PyNone),
                             "", PyNone)

\* attrs = AttributeScope(...) then attrs.parent = self.route_attrs of
\* Laconic.add_route: a scope whose parent is the scope so far.
NewScope ==
    /\ ScopeDepth(probe.scope) < MaxScopes
    /\ \E attrs \in Dicts \cup {PyNone} :
          probe' = ScopeProbe("__init__", AttributeScope(attrs, probe.scope),
                              "", PyNone)
    /\ UNCHANGED <<appVars, phase, requests>>

\* scope[key] = value
SetItem ==
    /\ \E key \in ScopeKeys, value \in ScopeValues :
          probe' = ScopeProbe("__setitem__",
                              AttributeScope_setitem(probe.scope, key, value),
                              key, PyNone)
    /\ UNCHANGED <<appVars, phase, requests>>

\* del scope[key]
DelItem ==
    /\ \E key \in ScopeKeys :
          LET d == AttributeScope_delitem(probe.scope, key)
          IN  probe' = ScopeProbe("__delitem__", d.self, key,
                                  IF d.raised THEN NewInstance(TypeObj("KeyError"))
                                  ELSE PyNone)
    /\ UNCHANGED <<appVars, phase, requests>>

\* scope[key]
GetItem ==
    /\ \E key \in ScopeKeys :
          probe' = ScopeProbe("__getitem__", probe.scope, key,
                              AttributeScope_getitem(probe.scope, key))
    /\ UNCHANGED <<appVars, phase, requests>>

NextScope == NewScope \/ SetItem \/ DelItem \/ GetItem
SpecScope == InitScope /\ [][NextScope]_vars

(***************************************************************************)
(* Properties of the Router                                                *)
(***************************************************************************)
\* The endpoints whose URL pattern matches the path, and among them those
\* whose methods contain the method.
PathMatching(eps, url_path) ==
    {i \in DOMAIN eps : URLRule_match(eps[i].url_rule, url_path)}
Accepting(eps, url_path, method) ==
    {i \in PathMatching(eps, url_path) : method \in Range(eps[i].methods)}
AllowedMethods(eps, url_path) ==
    UNION {Range(eps[i].methods) : i \in PathMatching(eps, url_path)}

\* What a resolution ends with: the endpoint object returned, or the class
\* of the exception raised.
Outcome(r) ==
    IF r.raised THEN [raised |-> TRUE, what |-> r.exc.type.name, id |-> 0]
    ELSE [raised |-> FALSE, what |-> r.value.name, id |-> r.value.id]

\* The orders in which n registrations can be made.
AllOrders ==
    [n \in 0..MaxRoutes |->
        {f \in [1..n -> 1..n] : \A i, j \in 1..n : f[i] = f[j] => i = j}]
Orders(n) == AllOrders[n]
Resolved == probe.op = "determine_endpoint"

\* C1: determine_endpoint returns the first endpoint in registration order
\* whose pattern matches the path and whose methods contain the method, also
\* when earlier endpoints match the path but not the method; and when at most
\* one registered pattern matches the path, every registration order of the
\* same endpoints gives the same outcome.
C1_FirstAcceptingEndpoint ==
    Resolved =>
        LET accepting == Accepting(endpoints, probe.url_path, probe.method)
        IN  /\ accepting # {} =>
                /\ ~probe.result.raised
                /\ probe.result.value.id \in accepting
                /\ \A j \in accepting : probe.result.value.id <= j
                /\ probe.result.value = endpoints[probe.result.value.id]
            /\ Cardinality(PathMatching(endpoints, probe.url_path)) <= 1 =>
                \A f \in Orders(Len(endpoints)) :
                    Outcome(determine_endpoint(
                                [i \in DOMAIN endpoints |-> endpoints[f[i]]],
                                probe.url_path, probe.method))
                        = Outcome(probe.result)

\* C1 witness: the endpoint returned is not the first one that matches the
\* path: an earlier one matches the path but not the method.
C1_Witness ==
    /\ Resolved
    /\ ~probe.result.raised
    /\ \E i \in PathMatching(endpoints, probe.url_path) :
          i < probe.result.value.id /\ probe.method \notin Range(endpoints[i].methods)

\* C2: when the path matches some endpoint and no path-matching endpoint
\* accepts the method, determine_endpoint raises APIMethodNotAllowedError
\* (status 405) carrying the union of the methods of the path-matching
\* endpoints.
C2_MethodNotAllowed ==
    (/\ Resolved
     /\ PathMatching(endpoints, probe.url_path) # {}
     /\ Accepting(endpoints, probe.url_path, probe.method) = {})
    => /\ probe.result.raised
       /\ probe.result.exc.type.name = "APIMethodNotAllowedError"
       /\ probe.result.exc.status_code = 405
       /\ probe.result.exc.valid_methods = AllowedMethods(endpoints, probe.url_path)

\* C3: determine_endpoint raises APIEndpointNotFoundError exactly when no
\* endpoint's pattern matches the path; when one matches, the outcome is a
\* path-matching endpoint or APIMethodNotAllowedError.
C3_NotFoundIffNoPattern ==
    Resolved =>
        /\ (probe.result.raised
              /\ probe.result.exc.type.name = "APIEndpointNotFoundError")
           <=> PathMatching(endpoints, probe.url_path) = {}
        /\ PathMatching(endpoints, probe.url_path) # {} =>
              IF probe.result.raised
              THEN probe.result.exc.type.name = "APIMethodNotAllowedError"
              ELSE probe.result.value.id \in PathMatching(endpoints, probe.url_path)

(***************************************************************************)
(* Properties of the request lifecycle                                     *)
(***************************************************************************)
\* The entries of a Context's trace of a kind, and whether a hook raised.
Calls(c, kind) == SelectSeq(c.trace, LAMBDA e : e.kind = kind)
HookCalls(c, event) ==
    SelectSeq(c.trace, LAMBDA e : e.kind = "hook" /\ e.event = event)
HookRaised(c) ==
    \E i \in DOMAIN c.trace : c.trace[i].kind = "hook" /\ c.trace[i].fn = "raiser"
HookResponded(c) ==
    \E i \in DOMAIN c.trace : c.trace[i].kind = "hook" /\ c.trace[i].fn = "responder"

\* The requests that have a Context, and those whose response was returned.
Started == {r \in DOMAIN requests : requests[r].context # PyNone}
Answered == {r \in Started : requests[r].pc = "done"}

\* The request has been through the routing step and routing failed for it.
RoutingFailed(r) ==
    LET c == requests[r].context
    IN  /\ r \in Started
        /\ c.request # PyNone
        /\ PathMatching(endpoints, c.request.path) = {}
           \/ Accepting(endpoints, c.request.path, c.request.method) = {}
        /\ requests[r].pc # "loop" \/ c.state # REQUEST_PARSED

\* The state the Context was given right after REQUEST_PARSED, 0 when none.
AfterRequestParsed(c) ==
    IF \E i \in 1..(Len(c.history) - 1) : c.history[i] = REQUEST_PARSED
    THEN c.history[1 + CHOOSE i \in 1..(Len(c.history) - 1) :
                            c.history[i] = REQUEST_PARSED]
    ELSE 0

\* C4: when routing fails for a request, the Context goes from
\* RequestParsed to Error carrying the routing failure, neither the
\* on_endpoint_determined hooks nor the endpoint function are called, and
\* (no hook raising) the response returned has status 404 for an unmatched
\* path and status 405 with an Allow header of the allowed methods for a
\* matched path whose method is not accepted.
C4_RoutingFailureResponse ==
    \A r \in DOMAIN requests :
        RoutingFailed(r) =>
            LET q == requests[r]
                c == q.context
                matched == PathMatching(endpoints, c.request.path) # {}
            IN  /\ HookCalls(c, "on_endpoint_determined") = <<>>
                /\ Calls(c, "endpoint") = <<>>
                /\ q.pc \in {"exited", "done"} =>
                      /\ AfterRequestParsed(c) = CONTEXT_ERROR
                      /\ c.exception.type.name =
                            IF matched THEN "APIMethodNotAllowedError"
                            ELSE "APIEndpointNotFoundError"
                /\ (q.pc = "done" /\ ~HookRaised(c)) =>
                      IF matched
                      THEN /\ q.sent.status_code = 405
                           /\ q.sent.has_allow
                           /\ q.sent.allow = AllowedMethods(endpoints, c.request.path)
                      ELSE q.sent.status_code = 404

\* What make_context_response is to make of the value v the result
\* post-processor returned: its text as the body and status 200, or the
\* text of its first component and the status it carries.
Wrapped(v) ==
    IF v.py = "tuple" THEN Response(py_str(v.first), v.second, FALSE, {}, "")
    ELSE Response(py_str(v), 200, FALSE, {}, "")

\* C5: when a request resolves to an endpoint, its parameters bind and the
\* endpoint function returns without raising, the function is called once,
\* with exactly the bound arguments; (no hook raising) the response
\* returned wraps the post-processed result, with status 200 unless the
\* result carries a status code, which is then the status.
C5_HappyPath ==
    \A r \in Started :
        LET q == requests[r]
            c == q.context
            calls == Calls(c, "endpoint")
        IN  /\ Len(calls) <= 1
            /\ calls # <<>> =>
                  LET ep == endpoints[calls[1].id]
                      bound == select_endpoint_params(
                                  ep, c,
                                  URLRule_extract_params(ep.url_rule, c.request.path))
                      post == EndpointResult_call(
                                  ep.result, Returns(ep.endpoint, calls[1].kwargs))
                  IN  /\ ep = c.endpoint
                      /\ ep.endpoint = calls[1].fn
                      /\ ~bound.raised
                      /\ calls[1].kwargs = bound.value
                      /\ (Raises(ep.endpoint) = "" /\ ~post.raised /\ ~HookRaised(c)) =>
                            /\ c.state \in {RESPONSE_GENERATED, CONTEXT_FINALIZED}
                            /\ c.response = Wrapped(post.value)
                            /\ q.pc = "done" => q.sent = Wrapped(post.value)

\* C5 witness: GET /g/w was answered "hi w" with status 200 by greet(n="w"),
\* with a hook called for on_response_generated.
C5_Witness ==
    \E r \in Answered :
        LET c == requests[r].context
        IN  /\ Calls(c, "endpoint") # <<>>
            /\ Calls(c, "endpoint")[1].fn = "greet"
            /\ Calls(c, "endpoint")[1].kwargs =
                  <<[name |-> <<"n">>, value |-> PyStr(<<"w">>)]>>
            /\ HookCalls(c, "on_response_generated") # <<>>
            /\ requests[r].sent.body = <<"h", "i", " ", "w">>
            /\ requests[r].sent.status_code = 200

\* C9: with auto-OPTIONS enabled, an OPTIONS request of a path that
\* matches a route is answered (no user hook raising or answering it) with
\* status 200, an empty body and an Allow header of exactly the union of
\* the methods of the routes matching the path, and no endpoint function
\* is called.
C9_AutoOptions ==
    \A r \in Started :
        LET q == requests[r]
            c == q.context
        IN  (/\ config.HTTP_AUTO_OPTIONS_RESPONSE
             /\ c.environ.method = "OPTIONS"
             /\ PathMatching(endpoints, c.environ.path) # {}
             /\ ~HookRaised(c)
             /\ ~HookResponded(c))
            => /\ Calls(c, "endpoint") = <<>>
               /\ q.pc \notin {"raised", "except", "escaped"}
               /\ q.pc = "done" =>
                     /\ q.sent.status_code = 200
                     /\ q.sent.body = <<>>
                     /\ q.sent.has_allow
                     /\ q.sent.allow = AllowedMethods(endpoints, c.environ.path)
                     /\ q.sent.error = ""

\* C9 witness: OPTIONS /a was answered with Allow: GET, POST, OPTIONS, the
\* methods of the two routes of /a.
C9_Witness ==
    \E r \in Answered :
        /\ config.HTTP_AUTO_OPTIONS_RESPONSE
        /\ requests[r].context.environ.method = "OPTIONS"
        /\ Cardinality(PathMatching(endpoints, requests[r].context.environ.path)) = 2
        /\ requests[r].sent.has_allow
        /\ requests[r].sent.allow = {"GET", "POST", "OPTIONS"}
        /\ requests[r].sent.status_code = 200

\* The positions in the trace of the built-in hook and of the user hooks of
\* on_endpoint_determined.
BuiltinAt(c) ==
    {i \in DOMAIN c.trace : c.trace[i].kind = "hook"
                            /\ c.trace[i].fn = "_process_http_options"}
UserHooksAt(c) ==
    {i \in DOMAIN c.trace : /\ c.trace[i].kind = "hook"
                            /\ c.trace[i].event = "on_endpoint_determined"
                            /\ c.trace[i].fn # "_process_http_options"}

\* C10: the built-in auto-OPTIONS hook runs after every user
\* on_endpoint_determined hook, and when a user hook that ran before it has
\* set the response of an OPTIONS request, the built-in hook leaves that
\* response unchanged and it is the response returned.
C10_BuiltinRunsLastAndKeepsResponse ==
    \A r \in Started :
        LET q == requests[r]
            c == q.context
        IN  /\ \A b \in BuiltinAt(c) : \A u \in UserHooksAt(c) : u < b
            /\ (/\ q.pc = "done"
                /\ c.environ.method = "OPTIONS"
                /\ \E b \in BuiltinAt(c) :
                      \E u \in UserHooksAt(c) :
                          u < b /\ c.trace[u].fn = "responder")
               => /\ q.sent.body = <<"m", "i", "n", "e">>
                  /\ ~q.sent.has_allow

(***************************************************************************)
(* Properties of the exception handlers                                    *)
(***************************************************************************)
\* The registered exception types that are ancestors of (or are) cls, and
\* the closest of them: the first in the MRO of cls.
RegisteredAncestors(cls) ==
    {i \in DOMAIN Mro(cls) :
        \E h \in DOMAIN exception_handlers :
            exception_handlers[h].exc_type = Mro(cls)[i]}
Closest(cls) ==
    Mro(cls)[CHOOSE i \in RegisteredAncestors(cls) :
                \A j \in RegisteredAncestors(cls) : i <= j]

\* C6: the handler selected for an exception raised by an endpoint is the
\* one registered for the closest registered ancestor of the exception's
\* type, whatever the order of the registrations.
C6_MostSpecificHandler ==
    probe.op = "find_handler" =>
        IF RegisteredAncestors(probe.raised) = {}
        THEN probe.found = PyNone
        ELSE /\ probe.found # PyNone
             /\ probe.found.exc_type = Closest(probe.raised)

(***************************************************************************)
(* Properties of the hook registry                                         *)
(***************************************************************************)
\* The priority a hook is to have: the one asked for, brought into
\* EVENT_PRIO_MIN..EVENT_PRIO_MAX.
Clamped(priority) ==
    IF priority < EVENT_PRIO_MIN THEN EVENT_PRIO_MIN
    ELSE IF priority > EVENT_PRIO_MAX THEN EVENT_PRIO_MAX
    ELSE priority

\* C7: trigger_event calls the hooks that remain registered for the event,
\* each once, by descending priority, and those of equal priority in the
\* order of their registration.
C7_HookOrder ==
    probe.op = "trigger_event" =>
        LET elems == event_hooks[probe.event].elems
            invoked == probe.called
        IN  /\ Len(invoked) = Len(elems)
            /\ \A i \in DOMAIN invoked :
                  /\ invoked[i].uid = elems[i][3].uid
                  /\ invoked[i].event = probe.event
            /\ \A i, j \in DOMAIN elems :
                  i < j =>
                      \/ Clamped(elems[i][3].asked) > Clamped(elems[j][3].asked)
                      \/ /\ Clamped(elems[i][3].asked) = Clamped(elems[j][3].asked)
                         /\ elems[i][3].uid < elems[j][3].uid

\* C7 witness: an event was triggered after three registrations and a
\* removal, and two hooks of equal priority were called after one of a
\* higher priority.
C7_Witness ==
    /\ probe.op = "trigger_event"
    /\ serial = MaxHooks
    /\ UserHooks(probe.event) < serial
    /\ \E i, j, k \in DOMAIN probe.called :
          LET elems == event_hooks[probe.event].elems
          IN  /\ i < j /\ j < k
              /\ Clamped(elems[i][3].asked) > Clamped(elems[j][3].asked)
              /\ Clamped(elems[j][3].asked) = Clamped(elems[k][3].asked)

\* The hooks stored, of every event: the pairs of an event and a position
\* in its list.
Stored ==
    UNION {{<<e, i>> : i \in DOMAIN event_hooks[e].elems} : e \in DOMAIN event_hooks}
StoredPriority(s) == -event_hooks[s[1]].elems[s[2]][1]
StoredHook(s) == event_hooks[s[1]].elems[s[2]][3]

\* C8 as stated: every stored hook has a priority in -1..100, the one asked
\* for brought into the range, and a hook asked for below -1 is never after
\* a hook registered earlier at -1.
C8_NeverAfterEarlierHook ==
    /\ \A s \in Stored :
          /\ StoredPriority(s) \in EVENT_PRIO_MIN..EVENT_PRIO_MAX
          /\ StoredPriority(s) = Clamped(StoredHook(s).asked)
    /\ \A s, t \in Stored :
          (/\ s[1] = t[1]
           /\ StoredHook(s).asked < EVENT_PRIO_MIN
           /\ StoredPriority(t) = EVENT_PRIO_MIN
           /\ StoredHook(t).uid < StoredHook(s).uid)
          => ~(t[2] < s[2])

\* C8: every stored hook has a priority in -1..100, the one asked for
\* brought into the range; a hook asked for below -1 is ordered as the
\* hooks of priority -1 are: after every hook registered earlier at -1, the
\* built-in one included, and before every hook registered later at -1.
C8_ClampedPriority ==
    /\ \A s \in Stored :
          /\ StoredPriority(s) \in EVENT_PRIO_MIN..EVENT_PRIO_MAX
          /\ StoredPriority(s) = Clamped(StoredHook(s).asked)
    /\ \A s, t \in Stored :
          (/\ s[1] = t[1]
           /\ StoredHook(s).asked < EVENT_PRIO_MIN
           /\ StoredPriority(t) = EVENT_PRIO_MIN
           /\ s # t)
          => (StoredHook(t).uid < StoredHook(s).uid <=> t[2] < s[2])

\* C8 witness: a hook asked for at -5 is stored at -1 behind the built-in
\* hook and before a hook registered later at -1, and a hook asked for at
\* 200 is stored at 100.
C8_Witness ==
    /\ \E s, t, u \in Stored :
          /\ s[1] = t[1] /\ t[1] = u[1]
          /\ StoredHook(s).fn = "_process_http_options"
          /\ StoredHook(t).asked = -5 /\ StoredPriority(t) = -1
          /\ StoredHook(u).asked = -1 /\ StoredHook(u).uid > StoredHook(t).uid
          /\ s[2] < t[2] /\ t[2] < u[2]
    /\ \E s \in Stored : StoredHook(s).asked = 200 /\ StoredPriority(s) = 100

(***************************************************************************)
(* Properties of the parameter binder.                                     *)
(***************************************************************************)
\* The dispatches made, and what the request of one holds.
Bound == IF probe.op = "dispatch_request" THEN {probe} ELSE {}
Injected(param) == param.type_ \in {"Headers", "Context"}
InBody(request, key) ==
    /\ request.method \in {"POST", "PUT", "PATCH"}
    /\ request.json # PyNone
    /\ dict_has(request.json.items, key)
InQuery(request, key) == dict_has(request.args, key)
Absent(param, request) ==
    /\ param.location # "path"
    /\ ~InBody(request, param.name)
    /\ ~InQuery(request, param.name)
RawValue(param, url_rule, request) ==
    IF param.location = "path"
    THEN PyStr(dict_get(URLRule_extract_params(url_rule, request.path),
                        param.name))
    ELSE IF InBody(request, param.name)
    THEN dict_get(request.json.items, param.name)
    ELSE dict_get(request.args, param.name)
\* The parameters of an endpoint that come first of those taken from the
\* request.
FirstFromRequest(endpoint) ==
    {i \in DOMAIN endpoint.parameters :
        /\ ~Injected(endpoint.parameters[i])
        /\ \A j \in 1..(i - 1) : Injected(endpoint.parameters[j])}
NotANumber(v) ==
    v.py = "str" /\ \E k \in DOMAIN v.s : v.s[k] \notin Digits \cup {"-"}

\* C11: a parameter taken from the request that is in neither the path
\* captures nor the body/query view, and has no default, makes the dispatch
\* raise APIMissingParameterError (status 400) naming the parameter, and
\* the endpoint function is not called.
C11_MissingParameter ==
    \A b \in Bound :
        \A i \in FirstFromRequest(b.context.endpoint) :
            LET param == b.context.endpoint.parameters[i]
            IN  (Absent(param, b.context.request) /\ ~param.has_default) =>
                    /\ b.result.raised
                    /\ b.result.exc.type.name = "APIMissingParameterError"
                    /\ b.result.exc.status_code = 400
                    /\ b.result.exc.description = Message(<<param.name>>)
                    /\ Calls(b.result.c, "endpoint") = <<>>
                    /\ b.result.c.state = ENDPOINT_DETERMINED

\* C11 witness: search(q: str) dispatched for POST /a?p=2 with the body
\* {"p": 3} raised APIMissingParameterError naming q.
C11_Witness ==
    \E b \in Bound :
        /\ b.context.endpoint.endpoint = "search"
        /\ b.context.request.method = "POST"
        /\ InBody(b.context.request, <<"p">>)
        /\ InQuery(b.context.request, <<"p">>)
        /\ b.result.raised
        /\ b.result.exc.type.name = "APIMissingParameterError"
        /\ b.result.exc.description = Message(<<(<<"q">>)>>)

\* C12: a parameter taken from the request that is absent and has a default
\* binds, and the endpoint function is called with the declared default for
\* it.
C12_DefaultForAbsent ==
    \A b \in Bound :
        \A i \in FirstFromRequest(b.context.endpoint) :
            LET param == b.context.endpoint.parameters[i]
                calls == Calls(b.result.c, "endpoint")
            IN  (Absent(param, b.context.request) /\ param.has_default) =>
                    /\ ~b.result.raised
                    /\ Len(calls) = 1
                    /\ calls[1].kwargs[i] = [name |-> param.name,
                                             value |-> param.default]

\* C12, where it holds: page(p: int = 1) dispatched without p was called
\* with p = 1.
C12_DefaultPassed ==
    \E b \in Bound :
        /\ b.context.endpoint.endpoint = "page"
        /\ Absent(b.context.endpoint.parameters[1], b.context.request)
        /\ ~b.result.raised
        /\ Calls(b.result.c, "endpoint")[1].kwargs =
              <<[name |-> <<"p">>, value |-> PyInt(1)]>>

\* C13: a value present for a parameter taken from the request that the
\* declared type does not accept makes the dispatch raise
\* APIInvalidParameterError (status 400) naming the parameter and the
\* exception of the constructor, and the endpoint function is not called;
\* Headers and Context parameters are bound to the request's headers and to
\* the Context themselves.
C13_InvalidParameter ==
    \A b \in Bound :
        LET ep == b.context.endpoint
            calls == Calls(b.result.c, "endpoint")
        IN  /\ \A i \in FirstFromRequest(ep) :
                  LET param == ep.parameters[i]
                  IN  (/\ ~Absent(param, b.context.request)
                       /\ param.type_ = "int"
                       /\ NotANumber(RawValue(param, ep.url_rule, b.context.request))) =>
                          /\ b.result.raised
                          /\ b.result.exc.type.name = "APIInvalidParameterError"
                          /\ b.result.exc.status_code = 400
                          /\ b.result.exc.description.py = "message"
                          /\ b.result.exc.description.args[1] = param.name
                          /\ b.result.exc.description.args[2].type.name = "ValueError"
                          /\ calls = <<>>
            /\ (\A i \in DOMAIN ep.parameters : Injected(ep.parameters[i])) =>
                  /\ ~b.result.raised
                  /\ Len(calls) = 1
                  /\ \A i \in DOMAIN ep.parameters :
                        calls[1].kwargs[i] = [name |-> ep.parameters[i].name,
                                              value |-> [py |-> ep.parameters[i].type_]]

\* C13 witness: item(n: int) dispatched for /a on the template
\* /<string:n> raised APIInvalidParameterError naming n and the
\* ValueError of int('a').
C13_Witness ==
    \E b \in Bound :
        /\ b.context.endpoint.endpoint = "item"
        /\ b.context.request.path = <<"/", "a">>
        /\ b.result.raised
        /\ b.result.exc.type.name = "APIInvalidParameterError"
        /\ b.result.exc.description.args = <<(<<"n">>), NewInstance(TypeObj("ValueError"))>>

\* C13, the injected parameters: ctx(c: Context, h: Headers) was called
\* with the Context and the request's headers.
C13_InjectedBound ==
    \E b \in Bound :
        /\ b.context.endpoint.endpoint = "ctx"
        /\ Calls(b.result.c, "endpoint") # <<>>
        /\ Calls(b.result.c, "endpoint")[1].kwargs =
              <<[name |-> <<"c">>, value |-> [py |-> "Context"]],
                [name |-> <<"h">>, value |-> [py |-> "Headers"]]>>

(***************************************************************************)
(* Properties of the Context's lifecycle.                                  *)
(***************************************************************************)
\* The edges of the lifecycle, and the pairs of different states that
\* follow one another in the history of a Context.
LifecycleEdges ==
    {<<CONTEXT_CREATED, CONTEXT_INITIALIZED>>,
     <<CONTEXT_INITIALIZED, REQUEST_PARSED>>,
     <<REQUEST_PARSED, ENDPOINT_DETERMINED>>,
     <<ENDPOINT_DETERMINED, RESPONSE_GENERATED>>,
     <<RESPONSE_GENERATED, CONTEXT_FINALIZED>>,
     <<CONTEXT_INITIALIZED, CONTEXT_ERROR>>,
     <<REQUEST_PARSED, CONTEXT_ERROR>>,
     <<ENDPOINT_DETERMINED, CONTEXT_ERROR>>,
     <<RESPONSE_GENERATED, CONTEXT_ERROR>>,
     <<CONTEXT_ERROR, RESPONSE_GENERATED>>}
Changes(c) ==
    {<<c.history[i], c.history[i + 1]>> : i \in 1..(Len(c.history) - 1)}
        \ {<<s, s>> : s \in Range(c.history)}
LinearChain ==
    <<CONTEXT_CREATED, CONTEXT_INITIALIZED, REQUEST_PARSED,
      ENDPOINT_DETERMINED, RESPONSE_GENERATED, CONTEXT_FINALIZED>>

\* C14: the state of a Context changes along the edges of the lifecycle
\* only; a later state of the linear chain is never followed by an earlier
\* one, no state follows CONTEXT_FINALIZED, and a request that is answered
\* without the Context ever being in CONTEXT_ERROR went through the six
\* states of the chain in order.
C14_LifecycleEdges ==
    \A r \in Started :
        LET c == requests[r].context
            h == c.history
        IN  /\ h[1] = CONTEXT_CREATED
            /\ h[Len(h)] = c.state
            /\ Changes(c) \subseteq LifecycleEdges
            /\ \A i, j \in DOMAIN h :
                  (i < j /\ h[i] # CONTEXT_ERROR /\ h[j] # CONTEXT_ERROR) =>
                      h[i] <= h[j]
            /\ \A i \in DOMAIN h : h[i] = CONTEXT_FINALIZED => i = Len(h)
            /\ (c.state = CONTEXT_FINALIZED /\ CONTEXT_ERROR \notin Range(h)) =>
                  \A k \in DOMAIN LinearChain :
                      \E i \in DOMAIN h :
                          /\ h[i] = LinearChain[k]
                          /\ \A j \in 1..(i - 1) : h[j] < LinearChain[k]

\* C14 witness: a request whose endpoint function raised, with no handler
\* registered for the exception, went from ENDPOINT_DETERMINED to
\* CONTEXT_ERROR, then to RESPONSE_GENERATED and CONTEXT_FINALIZED.
C14_Witness ==
    \E r \in Answered :
        /\ requests[r].context.history =
              <<CONTEXT_CREATED, CONTEXT_INITIALIZED, REQUEST_PARSED,
                ENDPOINT_DETERMINED, CONTEXT_ERROR, RESPONSE_GENERATED,
                CONTEXT_FINALIZED>>
        /\ Calls(requests[r].context, "endpoint") # <<>>

\* The state each transition method requires.
RequiredState(op) ==
    CASE op = "_init_context" -> CONTEXT_CREATED
      [] op = "_process_request" -> CONTEXT_INITIALIZED
      [] op = "_determine_endpoint" -> REQUEST_PARSED
      [] op = "_dispatch_request" -> ENDPOINT_DETERMINED
      [] op = "_process_error" -> CONTEXT_ERROR
      [] op = "_finalize_context" -> RESPONSE_GENERATED
TransitionCalls ==
    IF probe.op \in {"_init_context", "_process_request", "_determine_endpoint",
                     "_dispatch_request", "_process_error", "_finalize_context"}
    THEN {probe} ELSE {}

\* C15: a transition method called with the Context in another state than
\* the one it requires raises APIContextProcessingError and leaves the
\* Context as it was: state, request, endpoint, response and exception are
\* unchanged and no hook, endpoint function or handler has been called.
C15_GuardedTransitions ==
    \A p \in TransitionCalls :
        p.before.state # RequiredState(p.op) =>
            /\ p.result.raised
            /\ p.result.exc.type.name = "APIContextProcessingError"
            /\ p.result.exc.status_code = 500
            /\ p.result.c = p.before
            /\ p.context.state = p.before.state
            /\ p.context.request = p.before.request
            /\ p.context.endpoint = p.before.endpoint
            /\ p.context.response = p.before.response
            /\ p.context.exception = p.before.exception
            /\ p.context.trace = p.before.trace

\* C15 witness: _dispatch_request called again on a Context it had already
\* taken to RESPONSE_GENERATED, with a hook called by the first call, raised
\* APIContextProcessingError.
C15_Witness ==
    \E p \in TransitionCalls :
        /\ p.op = "_dispatch_request"
        /\ p.before.state = RESPONSE_GENERATED
        /\ Calls(p.before, "endpoint") # <<>>
        /\ HookCalls(p.before, "on_response_generated") # <<>>
        /\ p.result.raised
        /\ p.result.exc.type.name = "APIContextProcessingError"

\* The requests whose endpoint function raised an exception that a
\* registered exception handler is for, with no hook raising.
HandledRaise ==
    {r \in Answered :
        LET c == requests[r].context
            calls == Calls(c, "endpoint")
        IN  /\ Len(calls) = 1
            /\ Raises(calls[1].fn) # ""
            /\ \E i \in DOMAIN exception_handlers :
                  issubclass(Mro(Raises(calls[1].fn)), exception_handlers[i].exc_type)
            /\ ~HookRaised(c)}

\* C16: when the endpoint function raises and a registered exception
\* handler is for the exception, (no hook raising) the handler is called
\* exactly once, its parameters annotated with an exception type holding
\* the exception and those annotated Context the Context, the Context was
\* never in CONTEXT_ERROR, and the response returned wraps the handler's
\* result.
C16_HandlerPath ==
    \A r \in HandledRaise :
        LET c == requests[r].context
            handled == Calls(c, "exception_handler")
        IN  /\ Len(handled) = 1
            /\ handled[1].raised = Raises(Calls(c, "endpoint")[1].fn)
            /\ \A k \in DOMAIN handled[1].kwargs :
                  handled[1].kwargs[k].value \in
                      {[py |-> "Context"],
                       NewInstance(TypeObj(handled[1].raised))}
            /\ CONTEXT_ERROR \notin Range(c.history)
            /\ c.state = CONTEXT_FINALIZED
            /\ requests[r].sent = Wrapped(handler_returns(handled[1].fn))

\* C16, where it holds: with no on_response_generated hook registered,
\* boom raised KeyError, the handler h2 registered for LookupError was
\* called with the exception and the Context, and its result was returned.
C16_HandledWithoutHooks ==
    \E r \in HandledRaise :
        /\ event_hooks["on_response_generated"].elems = <<>>
        /\ Calls(requests[r].context, "exception_handler") # <<>>
        /\ Calls(requests[r].context, "exception_handler")[1].fn = "h2"
        /\ CONTEXT_ERROR \notin Range(requests[r].context.history)
        /\ requests[r].sent = Wrapped(handler_returns("h2"))

\* The requests whose endpoint function raised an exception that no
\* registered exception handler is for, with no hook raising.
UnhandledRaise ==
    {r \in Answered :
        LET c == requests[r].context
            calls == Calls(c, "endpoint")
        IN  /\ Len(calls) = 1
            /\ Raises(calls[1].fn) # ""
            /\ \A i \in DOMAIN exception_handlers :
                  ~issubclass(Mro(Raises(calls[1].fn)), exception_handlers[i].exc_type)
            /\ ~HookRaised(c)}
ThroughError(c) ==
    \E i \in DOMAIN c.history :
        /\ i + 2 <= Len(c.history)
        /\ c.history[i] = ENDPOINT_DETERMINED
        /\ c.history[i + 1] = CONTEXT_ERROR
        /\ c.history[i + 2] = RESPONSE_GENERATED

Registered(event) ==
    {event_hooks[event].elems[i][3] : i \in DOMAIN event_hooks[event].elems}
\* The requests that are over and whose Context was initialized.
Over ==
    {r \in Started :
        /\ requests[r].pc = "done"
        /\ CONTEXT_INITIALIZED \in Range(requests[r].context.history)}

\* C18: when the call of the application for a request is over and the
\* Context was initialized (no on_context_finalize hook being one that
\* raises), the Context is in CONTEXT_FINALIZED and every
\* on_context_finalize hook has been called exactly once for it.
C18_FinalizedOnce ==
    \A r \in Over :
        LET c == requests[r].context
        IN  (\A hook \in Registered("on_context_finalize") : hook.fn # "raiser") =>
                /\ c.state = CONTEXT_FINALIZED
                /\ \A hook \in Registered("on_context_finalize") :
                      Len(SelectSeq(HookCalls(c, "on_context_finalize"),
                                    LAMBDA e : e.uid = hook.uid)) = 1

\* C18, where it holds: a request whose routing failed, with no hook
\* registered, was answered with its Context finalized.
C18_FinalizedAfterRoutingFailure ==
    \E r \in Over :
        /\ RoutingFailed(r)
        /\ requests[r].context.state = CONTEXT_FINALIZED
        /\ requests[r].context.history[Len(requests[r].context.history) - 2]
              = CONTEXT_ERROR

\* C19: a call of the application never ends with an exception leaving
\* it; when it is over one response has been returned, and when an
\* exception left the Context's lifecycle that response is the rendering
\* of an APIInternalServerError, with status 500.
C19_OneResponse ==
    \A r \in RequestIds :
        /\ requests[r].pc # "escaped"
        /\ requests[r].pc = "done" =>
              /\ requests[r].sent.py = "Response"
              /\ requests[r].pending # PyNone =>
                    /\ requests[r].sent.status_code = 500
                    /\ requests[r].sent.error = "APIInternalServerError"
              /\ requests[r].pending = PyNone =>
                    requests[r].sent = requests[r].context.response

\* C19, where it holds: a hook raised while the error response of a
\* request was rendered in Context.__exit__, and the request was answered
\* with the last-resort response.
C19_LastResortAnswer ==
    \E r \in Answered :
        /\ requests[r].pending # PyNone
        /\ requests[r].context.state = RESPONSE_GENERATED
        /\ CONTEXT_ERROR \in Range(requests[r].context.history)
        /\ HookRaised(requests[r].context)
        /\ requests[r].sent.status_code = 500
        /\ requests[r].sent.error = "APIInternalServerError"

(***************************************************************************)
(* Properties of route registration.                                       *)
(***************************************************************************)
\* A template with an unequal number of <, : and >.
Occurrences(url_rule, ch) ==
    Cardinality({i \in DOMAIN url_rule : url_rule[i] = ch})
Malformed(url_rule) ==
    \/ Occurrences(url_rule, "<") # Occurrences(url_rule, ">")
    \/ Occurrences(url_rule, "<") # Occurrences(url_rule, ":")
\* The declared parameters of a function, and those without a type.
Declared(f) ==
    {signature(f).parameters[i].name : i \in DOMAIN signature(f).parameters}
Untyped(f) ==
    {signature(f).parameters[i].name :
        i \in {k \in DOMAIN signature(f).parameters :
                  signature(f).parameters[k].annotation = "empty"}}
IllDefined(url_rule, f) ==
    \/ Malformed(url_rule)
    \/ Untyped(f) # {}
    \/ ~Malformed(url_rule) /\ ~(Range(URLRule(url_rule).url_params) \subseteq Declared(f))

\* C20: add_route for a template that is malformed or names a variable the
\* function does not declare, or for a function with a parameter without
\* annotation, raises APIEndpointDefinitionError and leaves the list of
\* endpoints as it was; every endpoint of the list has its template's
\* variables among its typed parameters, so the endpoint a path resolves
\* to is never one of a rejected route.
C20_DefinitionErrors ==
    /\ probe.op = "add_route" =>
          /\ IllDefined(probe.url_rule, probe.endpoint) =>
                /\ probe.raised
                /\ probe.error = "APIEndpointDefinitionError"
          /\ probe.raised => endpoints = probe.before
          /\ ~probe.raised => Len(endpoints) = Len(probe.before) + 1
    /\ \A i \in DOMAIN endpoints :
          LET ep == endpoints[i]
          IN  /\ ep.url_rule.ok
              /\ Untyped(ep.endpoint) = {}
              /\ \A k \in DOMAIN ep.parameters : ep.parameters[k].type_ # "empty"
              /\ \A k \in DOMAIN ep.url_rule.url_params :
                    \E j \in DOMAIN ep.parameters :
                        /\ ep.parameters[j].name = ep.url_rule.url_params[k]
                        /\ ep.parameters[j].location = "path"
    /\ (probe.op = "determine_endpoint" /\ ~probe.result.raised) =>
          /\ probe.result.value \in Range(endpoints)
          /\ Untyped(probe.result.value.endpoint) = {}

\* C20 witness: with a route registered, add_route('/<int:n>', hello) for
\* hello() raised APIEndpointDefinitionError and the list of endpoints is
\* unchanged.
C20_Witness ==
    /\ probe.op = "add_route"
    /\ probe.url_rule = TplInt
    /\ probe.endpoint = "hello"
    /\ probe.raised
    /\ probe.error = "APIEndpointDefinitionError"
    /\ probe.before # <<>>
    /\ endpoints = probe.before

(***************************************************************************)
(* Properties of URLRule.                                                  *)
(***************************************************************************)
Matched == IF probe.op = "match" THEN {probe} ELSE {}
\* A path that is no instance of the template whatever the values: text
\* before the leading literal, an empty value, a letter for a number, or a
\* slash after a last parameter that cannot hold one.
NoInstance(m) ==
    \/ m.variant = "leading"
    \/ m.variant = "empty_value" /\ Markers(m.shape) # <<>>
    \/ m.variant = "non_digit"
          /\ \E i \in DOMAIN Markers(m.shape) : Markers(m.shape)[i].type \in {TInt, TFloat}
    \/ m.variant = "trailing" /\ m.shape[Len(m.shape)].kind = "lit"
    \/ m.variant = "trailing" /\ m.shape[Len(m.shape)].kind = "param"
          /\ m.shape[Len(m.shape)].type # TPath

\* C21: a path made from a template by putting a value of its type in the
\* place of each parameter marker matches the rule, and extract_params
\* gives exactly the parameter names with the values put in; a path that
\* is no instance of the template does not match.
C21_MatchAndExtract ==
    \A m \in Matched :
        /\ m.variant = "instance" =>
              /\ m.match
              /\ m.params = [i \in DOMAIN Markers(m.shape) |->
                                [name |-> Markers(m.shape)[i].name,
                                 value |-> m.values[i]]]
        /\ NoInstance(m) => ~m.match

\* C21, where it holds: /<int:n>/<string:s> matched /-12/a-b with n = -12
\* and s = a-b.
C21_TwoParameters ==
    \E m \in Matched :
        /\ m.url_path = <<"/", "-", "1", "2", "/", "a", "-", "b">>
        /\ m.match
        /\ m.params = <<[name |-> <<"n">>, value |-> <<"-", "1", "2">>],
                        [name |-> <<"s">>, value |-> <<"a", "-", "b">>]>>

\* The requests no hook raised for or answered.
Quiet(c) ==
    /\ ~HookRaised(c)
    /\ ~HookResponded(c)
    /\ ~(c.request.method = "OPTIONS" /\ config.HTTP_AUTO_OPTIONS_RESPONSE)
\* The answered requests whose endpoint has a parameter that does not
\* bind, and the error that is raised for it.
BindingError(c) ==
    LET i == CHOOSE k \in FirstFromRequest(c.endpoint) : TRUE
        param == c.endpoint.parameters[i]
    IN  IF Absent(param, c.request) /\ ~param.has_default
        THEN "APIMissingParameterError"
        ELSE IF /\ ~Absent(param, c.request)
                /\ param.type_ = "int"
                /\ NotANumber(RawValue(param, c.endpoint.url_rule, c.request))
        THEN "APIInvalidParameterError"
        ELSE ""
BindingFailed ==
    {r \in Answered :
        LET c == requests[r].context
        IN  /\ c.endpoint # PyNone
            /\ FirstFromRequest(c.endpoint) # {}
            /\ BindingError(c) # ""
            /\ Quiet(c)}

\* C22: a request whose parameters do not bind (no hook raising or
\* answering it) is answered with the rendering of the
\* APIMissingParameterError or APIInvalidParameterError, status 400; the
\* endpoint function is not called and no exception handler is called,
\* whatever handlers are registered.
C22_BindingFailureRendered ==
    \A r \in BindingFailed :
        LET c == requests[r].context
        IN  /\ Calls(c, "endpoint") = <<>>
            /\ Calls(c, "exception_handler") = <<>>
            /\ c.exception.type.name = BindingError(c)
            /\ c.state = CONTEXT_FINALIZED
            /\ requests[r].sent = as_response(c.exception, config.DEBUG)
            /\ requests[r].sent.status_code = 400
            /\ requests[r].sent.error = BindingError(c)

\* C22 witness: with a handler registered for Exception, GET /b routed to
\* item(n: int) was answered 400 for the APIInvalidParameterError.
C22_Witness ==
    \E r \in BindingFailed :
        /\ exception_handlers # <<>>
        /\ exception_handlers[1].exc_type = "Exception"
        /\ requests[r].context.endpoint.endpoint = "item"
        /\ requests[r].sent.status_code = 400
        /\ requests[r].sent.error = "APIInvalidParameterError"

\* The places in the trace of the calls of the hooks of an event.
HookPlaces(c, event) ==
    {i \in DOMAIN c.trace : c.trace[i].kind = "hook" /\ c.trace[i].event = event}

\* C23: for a request that is answered with the response of its Context
\* (no hook raising), every on_response_generated hook has been called
\* exactly once, before every call of an on_context_finalize hook.
C23_ResponseGeneratedOnce ==
    \A r \in Answered :
        LET c == requests[r].context
        IN  (~HookRaised(c) /\ requests[r].sent = c.response) =>
                /\ \A hook \in Registered("on_response_generated") :
                      Cardinality({i \in HookPlaces(c, "on_response_generated") :
                                      c.trace[i].uid = hook.uid}) = 1
                /\ \A i \in HookPlaces(c, "on_response_generated") :
                      \A j \in HookPlaces(c, "on_context_finalize") : i < j

\* C23, where it holds: a GET answered by the endpoint function, the
\* on_response_generated hook called once after it.
C23_FiredAfterEndpoint ==
    \E r \in Answered :
        LET c == requests[r].context
        IN  /\ c.state = CONTEXT_FINALIZED
            /\ Calls(c, "endpoint") # <<>>
            /\ Len(HookCalls(c, "on_response_generated")) = 1
            /\ c.trace[Len(c.trace)].kind = "hook"
            /\ requests[r].sent.status_code = 200

\* The places in the trace where an exception handler was called and
\* returned: the function has the parameters it was called with.
HandlerReturned(c) ==
    {i \in DOMAIN c.trace :
        /\ c.trace[i].kind = "exception_handler"
        /\ c.trace[i].fn \in {"h1", "h2"}}

\* C24: when a user exception handler has answered and a hook taking
\* (response, context) is registered for on_response_generated, the hook
\* is called next and the request is answered with the handler's result.
C24_SameArguments ==
    \A r \in Answered :
        LET c == requests[r].context
        IN  \A i \in HandlerReturned(c) :
                (\E hook \in Registered("on_response_generated") : hook.fn = "noop") =>
                    /\ i < Len(c.trace)
                    /\ c.trace[i + 1].kind = "hook"
                    /\ c.trace[i + 1].event = "on_response_generated"
                    /\ c.trace[i + 1].fn = "noop"
                    /\ requests[r].sent = Wrapped(handler_returns(c.trace[i].fn))

\* C24, where it holds: the endpoint function returned and the hook was
\* called with the response and the Context right after it.
C24_CalledAfterEndpoint ==
    \E r \in Answered :
        LET c == requests[r].context
        IN  \E i \in DOMAIN c.trace :
                /\ c.trace[i].kind = "endpoint"
                /\ Raises(c.trace[i].fn) = ""
                /\ i < Len(c.trace)
                /\ c.trace[i + 1].kind = "hook"
                /\ c.trace[i + 1].event = "on_response_generated"
                /\ c.trace[i + 1].fn = "noop"
                /\ requests[r].sent = c.response

\* Two exception types neither of which is a subclass of the other.
Unrelated(a, b) == ~issubclass(Mro(a), b) /\ ~issubclass(Mro(b), a)

\* C25: in the exception handler list a handler for a subtype is never
\* after a handler for one of its strict supertypes, of two handlers for
\* unrelated types the one with the longer ancestor chain is first, and
\* unrelated types with chains of the same length are in the order of
\* their names.
C25_DocumentedOrder ==
    \A i, j \in DOMAIN exception_handlers :
        LET a == exception_handlers[i].exc_type
            b == exception_handlers[j].exc_type
        IN  (i < j /\ a # b) =>
                /\ ~issubclass(Mro(b), a)
                /\ Unrelated(a, b) => Len(Mro(a)) >= Len(Mro(b))
                /\ (Unrelated(a, b) /\ Len(Mro(a)) = Len(Mro(b))) => name_lt(a, b)

\* C25, where it holds: handlers for KeyError, LookupError and Exception,
\* registered least specific first, are in the list most specific first.
C25_ChainInOrder ==
    /\ Len(exception_handlers) = 3
    /\ exception_handlers[1].exc_type = "KeyError"
    /\ exception_handlers[2].exc_type = "LookupError"
    /\ exception_handlers[3].exc_type = "Exception"

\* The states Context._actions has an entry for, and for a state the loop
\* of do_next can be in, the number of turns the loop can still take.
ActionStates ==
    {CONTEXT_INITIALIZED, REQUEST_PARSED, ENDPOINT_DETERMINED, CONTEXT_ERROR}
TurnsLeft(state) ==
    CASE state = CONTEXT_INITIALIZED -> 4
      [] state = REQUEST_PARSED -> 3
      [] state = ENDPOINT_DETERMINED -> 2
      [] state = CONTEXT_ERROR -> 1
      [] state = RESPONSE_GENERATED -> 0

\* C26: while a request is in the loop of do_next the state of its Context
\* is RESPONSE_GENERATED or one Context._actions has an entry for, the loop
\* starts in CONTEXT_INITIALIZED, and every turn that does not raise takes
\* the state strictly further along INITIALIZED, REQUEST_PARSED,
\* ENDPOINT_DETERMINED, ERROR, RESPONSE_GENERATED: no action runs twice and
\* the loop ends within four turns.
C26_LoopTerminates ==
    /\ [](\A r \in RequestIds :
            requests[r].pc = "loop" =>
                requests[r].context.state \in ActionStates \cup {RESPONSE_GENERATED})
    /\ [][\A r \in RequestIds :
            /\ (requests[r].pc = "idle" /\ requests'[r].pc = "loop") =>
                    requests'[r].context.state = CONTEXT_INITIALIZED
            /\ (requests[r].pc = "loop" /\ requests'[r].pc = "loop"
                    /\ requests'[r] # requests[r]) =>
                    TurnsLeft(requests'[r].context.state)
                        < TurnsLeft(requests[r].context.state)
            /\ (requests[r].pc = "loop" /\ requests'[r].pc \notin {"loop", "raised"}) =>
                    requests[r].context.state = RESPONSE_GENERATED]_vars

\* C26, the longest case: a request whose loop took all four turns, the
\* last of them Context._process_error.
C26_FourTurns ==
    \E r \in Answered :
        requests[r].context.history =
            <<CONTEXT_CREATED, CONTEXT_INITIALIZED, REQUEST_PARSED,
              ENDPOINT_DETERMINED, CONTEXT_ERROR, RESPONSE_GENERATED,
              CONTEXT_FINALIZED>>

\* C27: once registration is over no step changes the endpoint list, the
\* hook registries or the exception handler list, and a request answered
\* while the steps of another request were taken in between ends with the
\* Context, the state and the response the same call of the application
\* gives when it runs alone.
C27_Interleaved ==
    /\ [][UNCHANGED <<endpoints, event_hooks, exception_handlers, config>>]_vars
    /\ [](\A r \in DOMAIN requests :
            requests[r].pc = "done" =>
                requests[r] = application(App, requests[r].context.environ))

\* C27: a request is answered, its steps taken while the other request,
\* for another method and path, is between two steps of its own loop.
C27_Witness ==
    /\ DOMAIN requests = TwoRequests
    /\ requests[1].pc = "loop"
    /\ requests[1].context.state = ENDPOINT_DETERMINED
    /\ requests[2].pc = "done"
    /\ requests[2].context.environ # requests[1].context.environ
    /\ requests[2].sent.status_code = 200

\* C28: an exception handler is called only for the exception the endpoint
\* function of the request raised: the endpoint function was called
\* before, it is one that raises, and the handler was called for the
\* class it raises.
C28_HandlersForEndpointOnly ==
    \A r \in Started :
        LET c == requests[r].context
        IN  \A i \in DOMAIN c.trace :
                c.trace[i].kind = "exception_handler" =>
                    \E j \in 1..(i - 1) :
                        /\ c.trace[j].kind = "endpoint"
                        /\ Raises(c.trace[j].fn) # ""
                        /\ c.trace[i].raised = Raises(c.trace[j].fn)

\* C28, where it holds: the endpoint function raised KeyError and the
\* handler registered for it was called with it.
C28_CalledForEndpoint ==
    \E r \in Answered :
        LET c == requests[r].context
        IN  /\ Calls(c, "endpoint") # <<>>
            /\ Calls(c, "exception_handler") # <<>>
            /\ Calls(c, "endpoint")[1].fn = "boom"
            /\ Calls(c, "exception_handler")[1].raised = "KeyError"
            /\ requests[r].sent = Wrapped(handler_returns("h1"))

\* The calls of the endpoint function made for a call of the application.
EndpointCalls(q) ==
    IF q.context = PyNone THEN <<>> ELSE Calls(q.context, "endpoint")

\* C29: the endpoint function is called at most once for a request; when
\* it was called, routing had found the endpoint, the request was not one
\* the automatic OPTIONS response answers, and the parameter taken from
\* the request had bound; the call is made by the turn of the loop for
\* ENDPOINT_DETERMINED and by no other step.
C29_EndpointOnce ==
    /\ [](\A r \in DOMAIN requests :
            LET c == requests[r].context
                calls == EndpointCalls(requests[r])
            IN  /\ Len(calls) <= 1
                /\ calls # <<>> =>
                      /\ ~RoutingFailed(r)
                      /\ c.endpoint # PyNone
                      /\ calls[1].id = c.endpoint.id
                      /\ ENDPOINT_DETERMINED \in Range(c.history)
                      /\ ~(c.request.method = "OPTIONS"
                              /\ config.HTTP_AUTO_OPTIONS_RESPONSE)
                      /\ FirstFromRequest(c.endpoint) # {} => BindingError(c) = "")
    /\ [][\A r \in DOMAIN requests :
            EndpointCalls(requests'[r]) # EndpointCalls(requests[r]) =>
                /\ requests[r].pc = "loop"
                /\ requests[r].context.state = ENDPOINT_DETERMINED
                /\ EndpointCalls(requests[r]) = <<>>]_vars

\* C29: the endpoint function raised, the request went through ERROR and a
\* hook raised after it, and the endpoint function was called once.
C29_Witness ==
    \E r \in Answered :
        LET c == requests[r].context
        IN  /\ Len(Calls(c, "endpoint")) = 1
            /\ CONTEXT_ERROR \in Range(c.history)
            /\ HookRaised(c)
            /\ c.trace[1].kind = "endpoint"

\* The layered lookup: the value the nearest scope that has the key stores
\* for it, None when no scope of the chain has the key.
RECURSIVE Layered(_, _)
Layered(scope, key) ==
    IF key \in DOMAIN scope.data.items THEN scope.data.items[key]
    ELSE IF scope.parent # PyNone THEN Layered(scope.parent, key)
    ELSE PyNone

\* C30: scope[key] is the value the scope stores for the key when it has
\* the key, otherwise what the same lookup gives in the parent scope, and
\* None when no scope of the chain has the key.
C30_ChildThenParent ==
    probe.op = "__getitem__" =>
        probe.result = Layered(probe.scope, probe.key)

\* C30, where it holds: neither the scope nor its parent has the key and
\* the lookup gives None.
C30_NoScopeHasKey ==
    /\ probe.op = "__getitem__"
    /\ probe.scope.parent # PyNone
    /\ probe.scope.data.items # <<>>
    /\ probe.scope.parent.data.items # <<>>
    /\ probe.result = PyNone

====
